---- MODULE Spec2Model ----
(***************************************************************************)
(* Model of the RHSTOR tools: stories.py (story creator) and view.py       *)
(* (epic fetcher).  Python strings are modelled as sequences of one-       *)
(* character strings, so that formatting, regular-expression matching,     *)
(* lower-casing and substring tests are computed character by character.   *)
(* Python's None is the one-element sequence None, which no string equals  *)
(* because "None" is not a single character.                               *)
(***************************************************************************)
EXTENDS Integers, Sequences, FiniteSets, TLC

VARIABLES
    op,      \* the function that ran last, "idle" between calls
    tool,    \* "stories" or "view": the module the function belongs to
    args,    \* the arguments of the call
    result,  \* the value the call returned
    calls,   \* the calls made on the jira client, in order
    output   \* the error reports printed, in order

vars == <<op, tool, args, result, calls, output>>

\* ---------------------------------------------------------------- bounds

\* Longest version string given to validate_fix_version, transform_fix_version
\* and fetch_epics_by_criteria.
MaxVersionLen == 5

\* Longest field-metadata list returned by jira.fields().
MaxFields == 3

\* Largest number of epics of a run.
MaxEpics == 2

\* ------------------------------------------------------- Python values

None == <<"None">>

\* An exception that left the function instead of a return value.
Raised == <<"Raised">>

\* An issue object of the jira client: issue[2] is its key.
Issue(key) == <<"Issue", key>>

\* A user object (an epic's assignee): user[2] is its name.
User(name) == <<"User", name>>

\* Python truthiness of an optional string: None and "" are falsy.
Truthy(x) == x # None /\ x # <<>>

\* Characters the enumerated version strings are made of: a digit, the
\* dot, a letter and the newline.
VersionAlphabet == {"4", ".", "v", "\n"}

StringsUpTo(alphabet, n) == UNION {[1..k -> alphabet] : k \in 0..n}

AsciiDigits == {"0", "1", "2", "3", "4", "5", "6", "7", "8", "9"}

DigitChars == <<"1", "2", "3", "4", "5", "6", "7", "8", "9">>

UpperCase ==
    <<"A","B","C","D","E","F","G","H","I","J","K","L","M",
      "N","O","P","Q","R","S","T","U","V","W","X","Y","Z">>

LowerCase ==
    <<"a","b","c","d","e","f","g","h","i","j","k","l","m",
      "n","o","p","q","r","s","t","u","v","w","x","y","z">>

\* str.lower() on one character.
lower_char(c) ==
    IF \E i \in 1..26 : UpperCase[i] = c
    THEN LowerCase[CHOOSE i \in 1..26 : UpperCase[i] = c]
    ELSE c

\* str.lower()
lower(s) == [i \in 1..Len(s) |-> lower_char(s[i])]

\* Python's  sub in s  for strings.
contains(s, sub) ==
    \E i \in 1..(Len(s) - Len(sub) + 1) : SubSeq(s, i, i + Len(sub) - 1) = sub

\* Python's  x in lst  for a list.
in_list(x, lst) == \E i \in 1..Len(lst) : lst[i] = x

\* sep.join(parts)
RECURSIVE join(_, _)
join(sep, parts) ==
    IF Len(parts) = 0 THEN <<>>
    ELSE IF Len(parts) = 1 THEN parts[1]
    ELSE parts[1] \o sep \o join(sep, Tail(parts))

\* Python's s.strip()
RECURSIVE strip(_)
strip(s) ==
    IF Len(s) = 0 THEN s
    ELSE IF s[1] \in {" ", "\n", "\t"} THEN strip(Tail(s))
    ELSE IF s[Len(s)] \in {" ", "\n", "\t"} THEN strip(SubSeq(s, 1, Len(s) - 1))
    ELSE s

\* ------------------------------------------------------------ literals

S_ToDo ==
    <<"T","o"," ","D","o">>

S_InProgress ==
    <<"I","n"," ","P","r","o","g","r","e","s","s">>

S_CodeReview ==
    <<"C","o","d","e"," ","R","e","v","i","e","w">>

S_ON_QA ==
    <<"O","N","_","Q","A">>

S_OnQA ==
    <<"O","n"," ","Q","A">>

S_Verified ==
    <<"V","e","r","i","f","i","e","d">>

S_Closed ==
    <<"C","l","o","s","e","d">>

S_todo ==
    <<"t","o","d","o">>

S_InvalidStatus ==
    <<"I","n","v","a","l","i","d"," ","S","t","a","t","u","s">>

L_X ==
    <<"X">>

base_query ==
    <<"p","r","o","j","e","c","t"," ","="," ","R","H","S","T","O","R"," ","A","N","D"," ","i",
      "s","s","u","e","t","y","p","e"," ","="," ","E","p","i","c">>

T_AND ==
    <<" ","A","N","D"," ">>

T_labels_eq ==
    <<"l","a","b","e","l","s"," ","="," ","\"">>

T_fixVersion_eq ==
    <<"f","i","x","V","e","r","s","i","o","n"," ","="," ","\"">>

T_status_eq ==
    <<"s","t","a","t","u","s"," ","="," ","\"">>

T_quote ==
    <<"\"">>

T_ODF_v ==
    <<"O","D","F"," ","v">>

T_dot0 ==
    <<".","0">>

default_label ==
    <<"O","D","F","-","4",".","1","9","-","c","a","n","d","i","d","a","t","e">>
S_closed ==
    <<"c","l","o","s","e","d">>

N_EpicLink ==
    <<"E","p","i","c"," ","L","i","n","k">>

N_EPIC_LINK ==
    <<"E","P","I","C"," ","L","I","N","K">>

N_EpicName ==
    <<"E","p","i","c"," ","N","a","m","e">>

N_EpicRelated ==
    <<"E","p","i","c","-","r","e","l","a","t","e","d","-","t","h","i","n","g","-","l","i","n",
      "k">>

N_Summary ==
    <<"S","u","m","m","a","r","y">>

N_EpicStatus ==
    <<"E","p","i","c"," ","S","t","a","t","u","s">>

N_ParentLink ==
    <<"P","a","r","e","n","t"," ","L","i","n","k">>

T_epic_link ==
    <<"e","p","i","c"," ","l","i","n","k">>

T_epic_name ==
    <<"e","p","i","c"," ","n","a","m","e">>

T_epic ==
    <<"e","p","i","c">>

T_link ==
    <<"l","i","n","k">>

T_customfield ==
    <<"c","u","s","t","o","m","f","i","e","l","d","_","1","0","0","0">>

T_KCS_story_for ==
    <<"K","C","S"," ","s","t","o","r","y"," ","f","o","r">>

T_Happy_story_for ==
    <<"H","a","p","p","y"," ","P","a","t","h"," ","V","a","l","i","d","a","t","i","o","n"," ",
      "S","t","o","r","y"," ","f","o","r">>

T_kcs ==
    <<"k","c","s">>

T_happy_path ==
    <<"h","a","p","p","y","-","p","a","t","h">>

T_dev_preview ==
    <<"d","e","v","-","p","r","e","v","i","e","w">>

T_epic_key ==
    <<"e","p","i","c","_","k","e","y">>

T_epic_summary ==
    <<"e","p","i","c","_","s","u","m","m","a","r","y">>

T_RHSTOR ==
    <<"R","H","S","T","O","R">>

T_Story ==
    <<"S","t","o","r","y">>

T_Relates ==
    <<"R","e","l","a","t","e","s">>

CF_10001 ==
    <<"c","u","s","t","o","m","f","i","e","l","d","_","1","0","0","0","1">>

CF_10008 ==
    <<"c","u","s","t","o","m","f","i","e","l","d","_","1","0","0","0","8">>

CF_10014 ==
    <<"c","u","s","t","o","m","f","i","e","l","d","_","1","0","0","1","4">>

CF_10002 ==
    <<"c","u","s","t","o","m","f","i","e","l","d","_","1","0","0","0","2">>

\* The key of the i-th epic: RHSTOR-1234, RHSTOR-1235, ...
EpicKey(i) ==
    <<"R","H","S","T","O","R","-","1","2","3">> \o <<DigitChars[i + 3]>>

E_summary ==
    <<"T","e","s","t"," ","E","p","i","c"," ","S","u","m","m","a","r","y">>

U_testuser ==
    <<"t","e","s","t","u","s","e","r">>

K_story ==
    <<"R","H","S","T","O","R","-","2","0","0">>

DQ_prefix ==
    <<"p","r","o","j","e","c","t"," ","="," ","R","H","S","T","O","R"," ","A","N","D"," ","i",
      "s","s","u","e","t","y","p","e"," ","="," ","S","t","o","r","y"," ","A","N","D"," ","\"",
      "E","p","i","c"," ","L","i","n","k","\""," ","="," ">>

DQ_kcs ==
    <<" ","A","N","D"," ","(","l","a","b","e","l","s"," ","="," ","\"","k","c","s","\""," ","O",
      "R"," ","s","u","m","m","a","r","y"," ","~"," ","\"","k","c","s","\"",")">>

DQ_happy ==
    <<" ","A","N","D"," ","(","l","a","b","e","l","s"," ","="," ","\"","h","a","p","p","y","-",
      "p","a","t","h","\""," ","O","R"," ","s","u","m","m","a","r","y"," ","~"," ","\"","h","a",
      "p","p","y","\"",")">>

\* ---------------------------------------------- re.match(pattern, version)

\* Positions reachable from a position of I by \d+ (one or more digits).
match_digits(s, I) ==
    {j \in 2..(Len(s) + 1) :
        \E i \in I : i < j /\ \A k \in i..(j - 1) : s[k] \in AsciiDigits}

\* Positions reachable from a position of I by \. (a literal dot).
match_dot(s, I) == {i + 1 : i \in {p \in I : p <= Len(s) /\ s[p] = "."}}

\* Python's $ without re.MULTILINE: the end of the string, or just before a
\* newline that is the last character of the string.
match_dollar(s, I) ==
    \E i \in I : i = Len(s) + 1 \/ (i = Len(s) /\ s[i] = "\n")

\* bool(re.match(r'^\d+\.\d+(?:\.\d+)?$', version))
re_match_version(s) ==
    LET major == match_digits(s, {1})
        minor == match_digits(s, match_dot(s, major))
        patch == match_digits(s, match_dot(s, minor))
    IN  match_dollar(s, minor \cup patch)

\* ------------------------------------------------------------ stories.py

stories_ALLOWED_STATUSES ==
    <<S_ToDo, S_InProgress, S_CodeReview, S_ON_QA, S_Verified, S_Closed>>

stories_validate_fix_version(version) ==
    IF ~Truthy(version) THEN TRUE ELSE re_match_version(version)

\* transform_fix_version that appends ".0" only to a two-component version.
stories_transform_fix_version_normalised(fix_version) ==
    IF ~Truthy(fix_version) THEN None
    ELSE IF Cardinality({i \in 1..Len(fix_version) : fix_version[i] = "."}) >= 2
    THEN T_ODF_v \o fix_version
    ELSE T_ODF_v \o fix_version \o T_dot0

stories_transform_fix_version(fix_version) ==
    IF ~Truthy(fix_version) THEN None ELSE T_ODF_v \o fix_version \o T_dot0

\* validate_status comparing without regard to case.
stories_validate_status_any_case(status) ==
    Truthy(status) /\
    \E i \in 1..Len(stories_ALLOWED_STATUSES) :
        lower(stories_ALLOWED_STATUSES[i]) = lower(status)

stories_validate_status(status) == in_list(status, stories_ALLOWED_STATUSES)

\* The query without the default label: what fetch_epics_for_status_summary
\* does when no filter is given.
stories_search_query_bare(query_parts) ==
    IF Len(query_parts) > 0
    THEN base_query \o T_AND \o join(T_AND, query_parts)
    ELSE base_query

\* The query fetch_epics_by_criteria searches with, from the clauses of the
\* supplied filters (the if/else that follows the three filter blocks).
stories_search_query(query_parts) ==
    IF Len(query_parts) > 0
    THEN base_query \o T_AND \o join(T_AND, query_parts)
    ELSE base_query \o T_AND \o T_labels_eq \o default_label \o T_quote

\* jira.search_issues(search_query, maxResults=max_results) inside the try of
\* fetch_epics_by_criteria: `search` is what the tracker does with the call,
\* [raises |-> BOOLEAN, issues |-> the list it returns].
stories_fetch_epics_by_criteria(label, fix_version, status, max_results, search) ==
    LET label_parts ==
            IF Truthy(label) THEN <<T_labels_eq \o label \o T_quote>> ELSE <<>>
    IN
    IF Truthy(fix_version) /\ ~stories_validate_fix_version(fix_version)
    THEN [ret |-> <<>>, calls |-> <<>>, output |-> <<"invalid_fix_version">>]
    ELSE
    LET version_parts ==
            IF Truthy(fix_version)
            THEN <<T_fixVersion_eq \o stories_transform_fix_version(fix_version)
                                   \o T_quote>>
            ELSE <<>>
    IN
    IF Truthy(status) /\ ~stories_validate_status(status)
    THEN [ret |-> <<>>, calls |-> <<>>, output |-> <<"invalid_status">>]
    ELSE
    LET status_parts ==
            IF Truthy(status) THEN <<T_status_eq \o status \o T_quote>> ELSE <<>>
        query_parts == label_parts \o version_parts \o status_parts
        call == [fn |-> "search_issues",
                 query |-> stories_search_query(query_parts),
                 maxResults |-> max_results]
    IN
    IF search.raises
    THEN [ret |-> <<>>, calls |-> <<call>>, output |-> <<"search_error">>]
    ELSE [ret |-> search.issues, calls |-> <<call>>, output |-> <<>>]

\* First index of a non-empty set of list indices: the element a for loop
\* reaches first.
first(I) == CHOOSE i \in I : \A j \in I : i <= j

\* The test of the first loop of find_epic_link_field.
exact_name(field) ==
    LET field_name_lower == lower(field.name)
    IN  field_name_lower = T_epic_link \/ field_name_lower = T_epic_name

\* The second loop's test without the 'link' part (the test create_story's
\* own field search uses).
potential_name_epic_only(field) == contains(lower(field.name), T_epic)

\* The test of the second loop of find_epic_link_field.
potential_name(field) ==
    contains(lower(field.name), T_epic) /\ contains(lower(field.name), T_link)

\* find_epic_link_field with the two loops merged into one.
find_epic_link_field_single_pass(jira_fields) ==
    IF jira_fields.raises THEN None
    ELSE
    LET all_fields == jira_fields.fields
        either == {i \in 1..Len(all_fields) :
                      exact_name(all_fields[i]) \/ potential_name(all_fields[i])}
    IN  IF either # {} THEN all_fields[first(either)].id ELSE None

\* `jira_fields` is what jira.fields() does: [raises |-> BOOLEAN, fields |->
\* the list of [name, id] it returns].
find_epic_link_field(jira_fields) ==
    IF jira_fields.raises THEN None
    ELSE
    LET all_fields == jira_fields.fields
        exact == {i \in 1..Len(all_fields) : exact_name(all_fields[i])}
        potential == {i \in 1..Len(all_fields) : potential_name(all_fields[i])}
    IN  IF exact # {} THEN all_fields[first(exact)].id
        ELSE IF potential # {} THEN all_fields[first(potential)].id
        ELSE None

\* a + b where either operand may already have raised.
cat(a, b) == IF a = Raised \/ b = Raised THEN Raised ELSE a \o b

\* Index of the first character of s that is in chars, 0 when there is none.
find_any(s, chars) ==
    IF \E j \in 1..Len(s) : s[j] \in chars
    THEN first({j \in 1..Len(s) : s[j] \in chars})
    ELSE 0

\* template.format(epic_key=..., epic_summary=...): "{{" and "}}" are literal
\* braces, "{name}" is replaced by the keyword argument of that name; a name
\* that is no keyword argument raises KeyError (an empty one IndexError) and
\* a single brace ValueError. The text up to the next brace is copied.
\* (Conversions and format specifications, "{name!r}" or "{name:>5}", are
\* in none of the templates here and count as unknown names.)
RECURSIVE str_format(_, _, _)
str_format(s, epic_key, epic_summary) ==
    LET b == find_any(s, {"{", "}"})
        literal == SubSeq(s, 1, b - 1)
        doubled == b < Len(s) /\ s[b + 1] = s[b]
        after == SubSeq(s, b + 1, Len(s))
        close == find_any(after, {"}"})
        name == SubSeq(after, 1, close - 1)
        rest == SubSeq(after, close + 1, Len(after))
    IN  IF b = 0 THEN s
        ELSE IF doubled
        THEN cat(literal \o <<s[b]>>,
                 str_format(SubSeq(s, b + 2, Len(s)), epic_key, epic_summary))
        ELSE IF s[b] = "}" \/ close = 0 THEN Raised
        ELSE IF name = T_epic_key
        THEN cat(literal \o epic_key, str_format(rest, epic_key, epic_summary))
        ELSE IF name = T_epic_summary
        THEN cat(literal \o epic_summary, str_format(rest, epic_key, epic_summary))
        ELSE Raised

DEFAULT_STORY_TEMPLATES ==
    <<[summary |->
           <<"K","C","S"," ","s","t","o","r","y"," ","f","o","r"," ","{","e","p","i","c",
             "_","k","e","y","}">>,
       description |->
           <<"F","o","r"," ","a"," ","d","e","v"," ","p","r","e","v","i","e","w"," ","e",
             "p","i","c",","," ","w","e"," ","n","e","e","d"," ","t","o"," ","a","d","d"," ",
             "a"," ","K","C","S"," ","a","r","t","i","c","l","e",".","\n","P","l","e","a",
             "s","e"," ","u","s","e"," ","t","h","e"," ","f","o","l","l","o","w","i","n",
             "g"," ","l","i","n","k"," ","t","o"," ","c","r","e","a","t","e"," ","a"," ","K",
             "C","S"," ","a","n","d"," ","r","e","a","c","h"," ","o","u","t"," ","t","o"," ",
             "L","i","j","o"," ","t","o"," ","p","u","b","l","i","s","h"," ","t","h","e",
             " ","s","a","m","e",".","\n","\n","h","t","t","p","s",":","/","/","a","c",
             "c","e","s","s",".","r","e","d","h","a","t",".","c","o","m","/","n","o",
             "d","e","/","a","d","d","/","k","c","s","-","s","o","l","u","t","i","o",
             "n","\n","\n","*","R","e","l","a","t","e","d"," ","E","p","i","c",":","*",
             " ","{","e","p","i","c","_","k","e","y","}","\n","*","E","p","i","c"," ","S",
             "u","m","m","a","r","y",":","*"," ","{","e","p","i","c","_","s","u","m","m",
             "a","r","y","}">>,
       story_points |-> 3],
      [summary |->
           <<"H","a","p","p","y"," ","P","a","t","h"," ","V","a","l","i","d","a","t","i",
             "o","n"," ","S","t","o","r","y"," ","f","o","r"," ","{","e","p","i","c","_",
             "k","e","y","}">>,
       description |->
           <<"H","a","p","p","y"," ","P","a","t","h"," ","V","a","l","i","d","a","t","i",
             "o","n",":","\n","\n","1",")"," ","T","h","e"," ","e","p","i","c"," ","s","h",
             "o","u","l","d"," ","b","e"," ","m","o","v","e","d"," ","t","o"," ","O","N",
             "_","Q","A"," ","o","n","l","y"," ","i","f"," ","t","h","e"," ","h","a","p",
             "p","y"," ","p","a","t","h"," ","v","a","l","i","d","a","t","i","o","n"," ",
             "s","t","e","p","s"," ","a","r","e"," ","p","r","o","v","i","d","e","d",".",
             " ","P","l","e","a","s","e"," ","a","d","d"," ","t","h","e"," ","s","t","e",
             "p","s",".","\n","\n","2",")"," ","M","a","k","e"," ","s","u","r","e"," ","t",
             "h","a","t"," ","t","h","e"," ","s","t","e","p","s"," ","a","r","e"," ","c",
             "l","e","a","r"," ","a","n","d"," ","e","a","s","y"," ","t","o"," ","f","o",
             "l","l","o","w",".","\n","\n","3",")"," ","S","t","e","p","s"," ","m","u",
             "s","t"," ","b","e"," ","t","e","s","t","e","d"," ","o","n"," ","a"," ","d","o",
             "w","n","s","t","r","e","a","m"," ","s","e","t","u","p",".","\n","\n","*",
             "R","e","l","a","t","e","d"," ","E","p","i","c",":","*"," ","{","e","p","i",
             "c","_","k","e","y","}","\n","*","E","p","i","c"," ","S","u","m","m","a",
             "r","y",":","*"," ","{","e","p","i","c","_","s","u","m","m","a","r","y",
             "}">>,
       story_points |-> 5]>>

\* The summary a template renders for an epic.
summary_for(template, epic) ==
    str_format(template.summary, epic.key, epic.summary)

story_label_of_none(template) == None

\* The label create_story derives from the template.
story_label_of(template) ==
    IF contains(template.summary, T_KCS_story_for) THEN T_kcs
    ELSE IF contains(template.summary, T_Happy_story_for) THEN T_happy_path
    ELSE None

\* The ids create_story's Method 3 tries, in order.
epic_link_fields == <<CF_10001, CF_10008, CF_10014, CF_10002>>

\* The key of the n-th issue the tracker creates: RHSTOR-2001, RHSTOR-2002,
\* ... RHSTOR-2010 and so on.
created_key(n) ==
    LET digit(d) == IF d = 0 THEN "0" ELSE DigitChars[d]
    IN  IF n < 10 THEN K_story \o <<digit(n)>>
        ELSE SubSeq(K_story, 1, Len(K_story) - 1)
                 \o <<digit(n \div 10), digit(n % 10)>>

\* The key the tracker gives the next issue it creates.
next_story_key(tracker) == created_key(tracker.created + 1)

create_issue_never_raises(tracker, story_fields) == TRUE

\* jira.create_issue(fields=story_fields): the tracker raises when it rejects
\* the story itself (by its summary) or the link field sent with it.
create_issue_ok(tracker, story_fields) ==
    /\ story_fields.summary \notin tracker.rejected
    /\ (story_fields.epic_link # <<>>) => tracker.link_at_create_ok

\* Method 2 of create_story: the field the loop over jira.fields() stops at.
method2_field(all_fields) ==
    LET hits == {i \in 1..Len(all_fields) :
                    \/ lower(all_fields[i].name) = T_epic_link
                    \/ contains(lower(all_fields[i].name), T_epic)}
    IN  IF hits = {} THEN None ELSE all_fields[first(hits)].id

update_call_on_epic(story_key, field, epic_key) ==
    [fn |-> "update", issue |-> epic_key, fields |-> <<[id |-> field, value |-> story_key]>>]

\* story.update(fields={field: epic.key})
update_call(story_key, field, epic_key) ==
    [fn |-> "update", issue |-> story_key, fields |-> <<[id |-> field, value |-> epic_key]>>]

\* Method 2: [calls, linked].
link_method2(tracker, story_key, epic_key) ==
    IF 2 \in tracker.fields_raises
    THEN [calls |-> <<[fn |-> "fields"]>>, linked |-> FALSE]
    ELSE LET epic_link_field == method2_field(tracker.fields)
         IN  IF Truthy(epic_link_field)
             THEN [calls |-> <<[fn |-> "fields"],
                               update_call(story_key, epic_link_field, epic_key)>>,
                   linked |-> epic_link_field \in tracker.updatable]
             ELSE [calls |-> <<[fn |-> "fields"]>>, linked |-> FALSE]

link_method3_tries_all(tracker, story_key, epic_key) ==
    [calls |-> [i \in 1..Len(epic_link_fields) |->
                    update_call(story_key, epic_link_fields[i], epic_key)],
     linked |-> \E i \in 1..Len(epic_link_fields) :
                    epic_link_fields[i] \in tracker.updatable]

\* Method 3: the updates with the fixed ids, up to the first that succeeds.
link_method3(tracker, story_key, epic_key) ==
    LET ok == {i \in 1..Len(epic_link_fields) : epic_link_fields[i] \in tracker.updatable}
        last == IF ok = {} THEN Len(epic_link_fields) ELSE first(ok)
    IN  [calls |-> [i \in 1..last |->
                        update_call(story_key, epic_link_fields[i], epic_key)],
         linked |-> ok # {}]

link_method4_never_linked(tracker, story_key, epic_key) ==
    IF tracker.link_types.raises
    THEN [calls |-> <<[fn |-> "issue_link_types"]>>, linked |-> FALSE]
    ELSE [calls |-> <<[fn |-> "issue_link_types"],
                      [fn |-> "create_issue_link", type |-> T_Relates,
                       inwardIssue |-> story_key, outwardIssue |-> epic_key,
                       comment |-> <<>>]>>,
          linked |-> FALSE]

link_method4_last_epic_type(tracker, story_key, epic_key) ==
    IF tracker.link_types.raises
    THEN [calls |-> <<[fn |-> "issue_link_types"]>>, linked |-> FALSE]
    ELSE LET link_types == tracker.link_types.types
             hits == {i \in 1..Len(link_types) :
                         contains(lower(link_types[i]), T_epic)}
         IN  [calls |-> <<[fn |-> "issue_link_types"],
                          [fn |-> "create_issue_link",
                           type |-> IF hits = {} THEN T_Relates
                                    ELSE link_types[CHOOSE i \in hits :
                                                        \A h \in hits : h <= i],
                           inwardIssue |-> story_key, outwardIssue |-> epic_key,
                           comment |-> <<>>]>>,
              linked |-> tracker.issue_link_ok]

\* Method 4: the generic issue link.
link_method4(tracker, story_key, epic_key) ==
    IF tracker.link_types.raises
    THEN [calls |-> <<[fn |-> "issue_link_types"]>>, linked |-> FALSE]
    ELSE LET link_types == tracker.link_types.types
             hits == {i \in 1..Len(link_types) :
                         contains(lower(link_types[i]), T_epic)}
             epic_link_type == IF hits = {} THEN T_Relates
                               ELSE link_types[first(hits)]
         IN  [calls |-> <<[fn |-> "issue_link_types"],
                          [fn |-> "create_issue_link", type |-> epic_link_type,
                           inwardIssue |-> story_key, outwardIssue |-> epic_key,
                           comment |->
                               <<"S","t","o","r","y"," ">> \o story_key
                                   \o <<" ","c","r","e","a","t","e","d"," ","f","o",
                                        "r"," ","e","p","i","c"," ">> \o epic_key]>>,
              linked |-> tracker.issue_link_ok]

\* The post-creation linking of create_story (the else branch after
\* create_issue): Method 2, then 3, then 4, each only while not linked.
link_after_creation(tracker, story_key, epic_key) ==
    LET method4(calls_so_far, m4) ==
            [calls |-> calls_so_far \o m4.calls, linked |-> m4.linked]
        method3(calls_so_far, m3) ==
            IF m3.linked
            THEN [calls |-> calls_so_far \o m3.calls, linked |-> TRUE]
            ELSE method4(calls_so_far \o m3.calls,
                         link_method4(tracker, story_key, epic_key))
        method2(m2) ==
            IF m2.linked THEN [calls |-> m2.calls, linked |-> TRUE]
            ELSE method3(m2.calls, link_method3(tracker, story_key, epic_key))
    IN  method2(link_method2(tracker, story_key, epic_key))

\* create_story(jira, epic, template): [ret, calls, output, created]; a key
\* story_fields does not hold (labels, assignee, the link field) is the empty
\* list here, a key it holds a one-element list. In the result
\* ret is the created story, None, or Raised when the except handler itself
\* fails, and created tells whether the tracker now holds a new story.
create_story(epic, template, tracker) ==
    LET linked_later(story, first_calls, link) ==
            [ret |-> story, calls |-> first_calls \o link.calls,
             output |-> IF link.linked THEN <<>>
                        ELSE <<"manual_action_required">>,
             created |-> TRUE]
        created(story, story_fields, first_calls) ==
            IF ~create_issue_ok(tracker, story_fields)
            THEN [ret |-> None, calls |-> first_calls,
                  output |-> <<"error_creating_story">>, created |-> FALSE]
            ELSE IF story_fields.epic_link # <<>>
            THEN \* epic_link_added_during_creation
                 [ret |-> story, calls |-> first_calls, output |-> <<>>,
                  created |-> TRUE]
            ELSE linked_later(story, first_calls,
                              link_after_creation(tracker, story[2], epic.key))
        sent(story_fields) ==
            created(Issue(next_story_key(tracker)), story_fields,
                    <<[fn |-> "fields"],
                      [fn |-> "create_issue", fields |-> story_fields]>>)
        formatted(story_summary, story_description, story_label,
                  epic_link_field) ==
            IF story_summary = Raised \/ story_description = Raised
            THEN \* the handler prints story_fields, which is not bound yet
                 [ret |-> Raised, calls |-> <<>>,
                  output |-> <<"error_creating_story">>, created |-> FALSE]
            ELSE sent([project |-> [key |-> T_RHSTOR],
                       summary |-> story_summary,
                       description |-> story_description,
                       issuetype |-> [name |-> T_Story],
                       labels |-> IF Truthy(story_label) THEN <<story_label>>
                                  ELSE <<>>,
                       assignee |-> IF epic.assignee # None
                                    THEN <<[name |-> epic.assignee[2]]>>
                                    ELSE <<>>,
                       epic_link |-> IF Truthy(epic_link_field)
                                     THEN <<[id |-> epic_link_field,
                                             value |-> epic.key]>>
                                     ELSE <<>>])
    IN  formatted(str_format(template.summary, epic.key, epic.summary),
                  str_format(template.description, epic.key, epic.summary),
                  story_label_of(template),
                  find_epic_link_field([raises |-> 1 \in tracker.fields_raises,
                                        fields |-> tracker.fields]))

\* The two searches of check_existing_stories for an epic; clause is DQ_kcs
\* or DQ_happy.
duplicate_search(epic, clause) ==
    [fn |-> "search_issues", query |-> DQ_prefix \o epic.key \o clause,
     maxResults |-> 10]

\* What check_existing_stories returns when a search raised.
no_existing_stories ==
    [kcs |-> <<>>, happy |-> <<>>, has_kcs |-> FALSE, has_happy |-> FALSE]

check_existing_stories_keeps_first(epic, existing) ==
    [ret |-> [kcs |-> existing.kcs, happy |-> <<>>,
              has_kcs |-> Len(existing.kcs) > 0, has_happy |-> FALSE],
     calls |-> <<duplicate_search(epic, DQ_kcs),
                 duplicate_search(epic, DQ_happy)>>,
     output |-> <<>>]

\* check_existing_stories(jira, epic): [ret, calls, output]; existing is what
\* the tracker does with the two searches: existing.raises is 0 when both
\* return (existing.kcs, existing.happy), 1 or 2 when that search raises.
check_existing_stories(epic, existing) ==
    LET kcs_call == duplicate_search(epic, DQ_kcs)
        happy_call == duplicate_search(epic, DQ_happy)
    IN  IF existing.raises = 1
        THEN [ret |-> no_existing_stories, calls |-> <<kcs_call>>,
              output |-> <<"could_not_check_existing_stories">>]
        ELSE IF existing.raises = 2
        THEN [ret |-> no_existing_stories, calls |-> <<kcs_call, happy_call>>,
              output |-> <<"could_not_check_existing_stories">>]
        ELSE [ret |-> [kcs |-> existing.kcs, happy |-> existing.happy,
                       has_kcs |-> Len(existing.kcs) > 0,
                       has_happy |-> Len(existing.happy) > 0],
              calls |-> <<kcs_call, happy_call>>, output |-> <<>>]

\* A line create_stories_for_epics prints: what it says, the epic it is
\* about (<<>> for the summary) and the number in it.
event(name, epic_key, n) == [event |-> name, epic |-> epic_key, n |-> n]

\* The lines create_story printed for template j of an epic.
story_events(printed, epic_key, j) ==
    [k \in 1..Len(printed) |-> event(printed[k], epic_key, j)]

\* The templates of the run: story_templates or DEFAULT_STORY_TEMPLATES (no
\* list and the empty list are both <<>> here).
templates_or_default(story_templates) ==
    IF story_templates = <<>> THEN DEFAULT_STORY_TEMPLATES ELSE story_templates

\* Manual selection: a template is skipped when its type already exists.
skipped(template, existing_stories) ==
    \/ contains(template.summary, T_KCS_story_for) /\ existing_stories.has_kcs
    \/ contains(template.summary, T_Happy_story_for) /\ existing_stories.has_happy

auto_both_templates(epic, story_templates, auto_mode, existing_stories) ==
    DEFAULT_STORY_TEMPLATES

\* epic_templates of create_stories_for_epics: the templates to create for an
\* epic, given the answer of the duplicate check.
epic_templates(epic, story_templates, auto_mode, existing_stories) ==
    IF auto_mode
    THEN IF in_list(T_dev_preview, epic.labels)
         THEN IF existing_stories.has_kcs THEN <<>>
              ELSE <<DEFAULT_STORY_TEMPLATES[1]>>
         ELSE IF existing_stories.has_happy THEN <<>>
              ELSE <<DEFAULT_STORY_TEMPLATES[2]>>
    ELSE LET keep(template) == ~skipped(template, existing_stories)
         IN  SelectSeq(templates_or_default(story_templates), keep)

\* The dry-run branch for an epic, from template j on: each summary is
\* formatted and printed; a format error leaves the function.
RECURSIVE dry_run_loop(_, _, _)
dry_run_loop(epic, templates, j) ==
    LET printed(rest) ==
            [raised |-> rest.raised,
             output |-> <<event("would_create", epic.key, j)>> \o rest.output]
    IN  IF j > Len(templates) THEN [raised |-> FALSE, output |-> <<>>]
        ELSE IF str_format(templates[j].summary, epic.key, epic.summary) = Raised
        THEN [raised |-> TRUE, output |-> <<>>]
        ELSE printed(dry_run_loop(epic, templates, j + 1))

\* The creating branch for an epic, from template j on: create_story for each
\* template; an exception leaving create_story leaves the function.
RECURSIVE create_loop(_, _, _, _)
create_loop(epic, templates, j, tracker) ==
    LET went_on(r, n, rest) ==
            [raised |-> rest.raised, calls |-> r.calls \o rest.calls,
             output |-> story_events(r.output, epic.key, j)
                            \o <<IF r.ret # None
                                 THEN event("created_story", epic.key, j)
                                 ELSE event("failed_to_create", epic.key, j)>>
                            \o rest.output,
             created |-> n + rest.created]
        counted(r, n) ==
            went_on(r, n, create_loop(epic, templates, j + 1,
                                      [tracker EXCEPT !.created = @ + n]))
        returned(r) ==
            IF r.ret = Raised
            THEN [raised |-> TRUE, calls |-> r.calls,
                  output |-> story_events(r.output, epic.key, j), created |-> 0]
            ELSE counted(r, IF r.created THEN 1 ELSE 0)
    IN  IF j > Len(templates)
        THEN [raised |-> FALSE, calls |-> <<>>, output |-> <<>>, created |-> 0]
        ELSE returned(create_story(epic, templates[j], tracker))

\* The loop over the epics, from epic i on; existing[i] is what the tracker
\* does with the duplicate searches for epic i.
RECURSIVE epic_loop(_, _, _, _, _, _, _)
epic_loop(epics, i, story_templates, dry_run, auto_mode, existing, tracker) ==
    LET went_on(epic, check, body, rest) ==
            [raised |-> rest.raised,
             calls |-> check.calls \o body.calls \o rest.calls,
             output |-> <<event("epic", epic.key, i)>>
                            \o story_events(check.output, epic.key, 0)
                            \o body.output \o rest.output,
             created |-> body.created + rest.created]
        done(epic, check, body) ==
            IF body.raised
            THEN [raised |-> TRUE, calls |-> check.calls \o body.calls,
                  output |-> <<event("epic", epic.key, i)>>
                                 \o story_events(check.output, epic.key, 0)
                                 \o body.output,
                  created |-> body.created]
            ELSE went_on(epic, check, body,
                         epic_loop(epics, i + 1, story_templates, dry_run,
                                   auto_mode, existing,
                                   [tracker EXCEPT !.created = @ + body.created]))
        dry(epic, n, d) ==
            [raised |-> d.raised, calls |-> <<>>,
             output |-> <<event("dry_run_would_create", epic.key, n)>>
                            \o d.output,
             created |-> 0]
        wet(epic, n, c) ==
            [raised |-> c.raised, calls |-> c.calls,
             output |-> <<event("creating", epic.key, n)>> \o c.output
                            \o IF c.raised THEN <<>>
                               ELSE <<event("created_for_epic", epic.key,
                                            c.created)>>,
             created |-> c.created]
        selected(epic, check, templates) ==
            IF Len(templates) = 0
            THEN done(epic, check,
                      [raised |-> FALSE, calls |-> <<>>,
                       output |-> <<event("no_new_stories", epic.key, 0)>>,
                       created |-> 0])
            ELSE IF dry_run
            THEN done(epic, check,
                      dry(epic, Len(templates), dry_run_loop(epic, templates, 1)))
            ELSE done(epic, check,
                      wet(epic, Len(templates),
                          create_loop(epic, templates, 1, tracker)))
        checked(epic, check) ==
            selected(epic, check,
                     epic_templates(epic, story_templates, auto_mode, check.ret))
    IN  IF i > Len(epics)
        THEN [raised |-> FALSE, calls |-> <<>>, output |-> <<>>, created |-> 0]
        ELSE checked(epics[i], check_existing_stories(epics[i], existing[i]))

\* The duplicate checks of the dry-run summaries, from epic i on.
RECURSIVE summary_checks(_, _, _)
summary_checks(epics, i, existing) ==
    LET both(check, rest) ==
            [calls |-> check.calls \o rest.calls,
             output |-> story_events(check.output, epics[i].key, 0)
                            \o rest.output]
    IN  IF i > Len(epics) THEN [calls |-> <<>>, output |-> <<>>]
        ELSE both(check_existing_stories(epics[i], existing[i]),
                  summary_checks(epics, i + 1, existing))

\* total_new_stories of the auto-mode dry-run summary.
auto_total_new_stories(epics, existing) ==
    LET has(i) == check_existing_stories(epics[i], existing[i]).ret
        dev_preview(i) == in_list(T_dev_preview, epics[i].labels)
    IN  Cardinality({i \in 1..Len(epics) :
                        \/ dev_preview(i) /\ ~has(i).has_kcs
                        \/ ~dev_preview(i) /\ ~has(i).has_happy})

\* total_stories_to_create of the manual dry-run summary.
manual_total_stories_to_create(epics, story_templates, existing) ==
    LET has(i) == check_existing_stories(epics[i], existing[i]).ret
        templates == templates_or_default(story_templates)
    IN  Cardinality({p \in (1..Len(epics)) \X (1..Len(templates)) :
                        \/ contains(templates[p[2]].summary, T_KCS_story_for)
                               /\ ~has(p[1]).has_kcs
                        \/ contains(templates[p[2]].summary,
                                    T_Happy_story_for)
                               /\ ~has(p[1]).has_happy})

\* create_stories_for_epics(jira, epics, story_templates, dry_run, auto_mode):
\* [ret, calls, output]. The tracker answers the duplicate searches of the
\* summary as it answered those of the loop.
create_stories_for_epics(epics, story_templates, dry_run, auto_mode, existing, tracker) ==
    LET dry_summary(loop, checks, total) ==
            [ret |-> None, calls |-> loop.calls \o checks.calls,
             output |-> loop.output \o checks.output
                            \o <<event("dry_run_total", <<>>, total)>>]
        finished(loop) ==
            IF loop.raised
            THEN [ret |-> Raised, calls |-> loop.calls, output |-> loop.output]
            ELSE IF dry_run
            THEN dry_summary(loop, summary_checks(epics, 1, existing),
                             IF auto_mode
                             THEN auto_total_new_stories(epics, existing)
                             ELSE manual_total_stories_to_create(
                                      epics, story_templates, existing))
            ELSE [ret |-> None, calls |-> loop.calls,
                  output |-> loop.output
                                 \o <<event("total_created", <<>>, loop.created)>>]
    IN  IF Len(epics) = 0
        THEN [ret |-> None, calls |-> <<>>,
              output |-> <<event("no_epics", <<>>, 0)>>]
        ELSE finished(epic_loop(epics, 1, story_templates, dry_run, auto_mode,
                                existing, tracker))

\* The stories a duplicate search for epic finds among those the calls of an
\* earlier run created: the query asks for "Epic Link" = epic.key and the
\* label or the word in the summary, so a story is found when it was
\* created, carries the label or the word, and the field named Epic Link was
\* set to the epic's key at creation or by an update the tracker accepted.
stories_found(earlier, tracker, epic, label, word) ==
    LET made == {k \in 1..Len(earlier) :
                    /\ earlier[k].fn = "create_issue"
                    /\ create_issue_ok(tracker, earlier[k].fields)}
        key(k) == created_key(tracker.created
                                + Cardinality({j \in made : j <= k}))
        named_epic_link(id) ==
            \E f \in 1..Len(tracker.fields) :
                /\ tracker.fields[f].id = id
                /\ lower(tracker.fields[f].name) = T_epic_link
        sets_link(fields) ==
            \E f \in 1..Len(fields) :
                named_epic_link(fields[f].id) /\ fields[f].value = epic.key
        linked(k) ==
            \/ sets_link(earlier[k].fields.epic_link)
            \/ \E u \in 1..Len(earlier) :
                   /\ earlier[u].fn = "update"
                   /\ earlier[u].issue = key(k)
                   /\ earlier[u].fields[1].id \in tracker.updatable
                   /\ sets_link(earlier[u].fields)
        matches(k) ==
            \/ in_list(label, earlier[k].fields.labels)
            \/ contains(lower(earlier[k].fields.summary), word)
        hits == {k \in made : linked(k) /\ matches(k)}
        RECURSIVE keys(_)
        keys(k) == IF k > Len(earlier) THEN <<>>
                   ELSE (IF k \in hits THEN <<key(k)>> ELSE <<>>) \o keys(k + 1)
    IN  keys(1)

\* What the duplicate searches answer in a run that follows the calls of an
\* earlier run on the same tracker: what they answered before and the
\* stories of the earlier run they find.
existing_after(existing, earlier, tracker, epics) ==
    [i \in 1..Len(epics) |->
        [existing[i] EXCEPT
             !.kcs = @ \o stories_found(earlier, tracker, epics[i], T_kcs,
                                        T_kcs),
             !.happy = @ \o stories_found(earlier, tracker, epics[i],
                                          T_happy_path,
                                          <<"h","a","p","p","y">>)]]

\* The tracker after the calls of an earlier run: it holds the stories the
\* run created.
tracker_after(earlier, tracker) ==
    [tracker EXCEPT
         !.created = @ + Cardinality({k \in 1..Len(earlier) :
                                         /\ earlier[k].fn = "create_issue"
                                         /\ create_issue_ok(tracker,
                                                            earlier[k].fields)})]

\* get_story_templates(args.templates); typed is the list the user enters at
\* the prompts of get_custom_templates (empty when the first summary is empty).
get_story_templates(template_type, typed) ==
    IF template_type = "default" THEN DEFAULT_STORY_TEMPLATES
    ELSE IF template_type = "auto" THEN <<>>
    ELSE IF template_type = "kcs" THEN <<DEFAULT_STORY_TEMPLATES[1]>>
    ELSE IF template_type = "happy" THEN <<DEFAULT_STORY_TEMPLATES[2]>>
    ELSE IF typed # <<>> THEN typed ELSE DEFAULT_STORY_TEMPLATES

\* The answers main takes as a confirmation.
confirmed_any_answer(answer) == TRUE

confirmed(answer) ==
    in_list(lower(strip(answer)), <<<<"y">>, <<"y", "e", "s">>>>)

\* The duplicate checks of main's debug analysis: in auto mode the
\* dev-preview epics first, then the others; otherwise in list order.
debug_analysis(epics, auto_mode, existing) ==
    LET order ==
            IF auto_mode
            THEN SelectSeq([i \in 1..Len(epics) |-> i],
                           LAMBDA i : in_list(T_dev_preview, epics[i].labels))
                 \o SelectSeq([i \in 1..Len(epics) |-> i],
                              LAMBDA i : ~in_list(T_dev_preview, epics[i].labels))
            ELSE [i \in 1..Len(epics) |-> i]
        RECURSIVE checks(_)
        checks(k) ==
            IF k > Len(order) THEN <<>>
            ELSE check_existing_stories(epics[order[k]], existing[order[k]]).calls
                     \o checks(k + 1)
    IN  checks(1)

\* What the process does once argparse has parsed the command line of a tool:
\* -h and -V print and exit 0, a usage error exits 2.
argparse_exit(argv) ==
    IF argv \in {"help", "version"} THEN 0
    ELSE IF argv = "usage_error" THEN 2
    ELSE -1

\* stories.py run as a program: [exit, calls, output]. inv is the invocation:
\* the command line, the environment, what the user types and what the
\* tracker does. calls lists the JIRA() connection, the jira calls and the
\* input() prompts in the order they happen.
stories_main(inv) ==
    IF argparse_exit(inv.argv) >= 0
    THEN [exit |-> argparse_exit(inv.argv), calls |-> <<>>, output |-> <<>>]
    ELSE IF inv.argv = "detailed_help"
    THEN [exit |-> 0, calls |-> <<>>, output |-> <<"detailed_help">>]
    ELSE IF ~inv.token
    THEN [exit |-> 1, calls |-> <<>>, output |-> <<"token_not_set">>]
    ELSE IF ~inv.connect_ok
    THEN [exit |-> 1, calls |-> <<[fn |-> "JIRA"]>>,
          output |-> <<"failed_to_connect">>]
    ELSE
    LET connect == <<[fn |-> "JIRA"]>>
                       \o IF inv.debug
                          THEN <<[fn |-> "project"], [fn |-> "issue_types"]>>
                          ELSE <<>>
        auto_mode == inv.templates = "auto"
        prompts == IF inv.templates = "custom"
                   THEN <<[fn |-> "input", prompt |-> "custom_templates"]>>
                   ELSE <<>>
        story_templates == get_story_templates(inv.templates, inv.typed)
    IN
    IF ~auto_mode /\ story_templates = <<>>
    THEN [exit |-> 1, calls |-> connect \o prompts,
          output |-> <<"no_story_templates">>]
    ELSE
    LET fetch == stories_fetch_epics_by_criteria(
                     inv.label, inv.fix_version, inv.status, inv.max_results,
                     inv.search)
        epics == fetch.ret
        before_fetch == connect \o prompts
    IN
    IF Len(epics) = 0
    THEN [exit |-> 0, calls |-> before_fetch \o fetch.calls,
          output |-> fetch.output \o <<"no_epics_found">>]
    ELSE
    LET analysis == IF inv.debug
                    THEN debug_analysis(epics, auto_mode, inv.existing)
                    ELSE <<>>
        before_confirm == before_fetch \o fetch.calls \o analysis
        confirmation == IF inv.dry_run THEN <<>>
                        ELSE <<[fn |-> "input", prompt |-> "proceed"]>>
    IN
    IF ~inv.dry_run /\ ~confirmed(inv.answer)
    THEN [exit |-> 0, calls |-> before_confirm \o confirmation,
          output |-> <<"operation_cancelled">>]
    ELSE
    LET batch == create_stories_for_epics(epics, story_templates, inv.dry_run,
                                          auto_mode, inv.existing, inv.tracker)
        all_calls == before_confirm \o confirmation \o batch.calls
    IN  IF batch.ret = Raised
        THEN [exit |-> 1, calls |-> all_calls, output |-> <<"traceback">>]
        ELSE [exit |-> 0, calls |-> all_calls,
              output |-> IF inv.dry_run THEN <<"run_without_dry_run">>
                         ELSE <<"story_creation_completed">>]

\* --------------------------------------------------------------- view.py

view_ALLOWED_STATUSES ==
    <<S_ToDo, S_InProgress, S_CodeReview, S_ON_QA, S_Verified, S_Closed>>

view_validate_fix_version(version) ==
    IF ~Truthy(version) THEN FALSE ELSE re_match_version(version)

\* validate_status comparing without regard to case.
view_validate_status_any_case(status) ==
    Truthy(status) /\
    \E i \in 1..Len(view_ALLOWED_STATUSES) :
        lower(view_ALLOWED_STATUSES[i]) = lower(status)

view_validate_status(status) ==
    IF ~Truthy(status) THEN FALSE ELSE in_list(status, view_ALLOWED_STATUSES)

view_transform_fix_version(fix_version) ==
    IF ~Truthy(fix_version) THEN None ELSE T_ODF_v \o fix_version \o T_dot0

\* The query fetch_epics_by_criteria searches with, from the clauses of the
\* supplied filters (the if/else that follows the three filter blocks).
view_search_query(query_parts) ==
    IF Len(query_parts) > 0
    THEN base_query \o T_AND \o join(T_AND, query_parts)
    ELSE base_query \o T_AND \o T_labels_eq \o default_label \o T_quote

\* fetch_epics_by_criteria appending the status clause before the fixVersion
\* clause.
view_fetch_epics_status_first(label, fix_version, status, max_results, search) ==
    LET label_parts ==
            IF Truthy(label) THEN <<T_labels_eq \o label \o T_quote>> ELSE <<>>
    IN
    IF Truthy(fix_version) /\ ~view_validate_fix_version(fix_version)
    THEN [ret |-> <<>>, calls |-> <<>>, output |-> <<"invalid_fix_version">>]
    ELSE
    LET version_parts ==
            IF Truthy(fix_version)
            THEN <<T_fixVersion_eq \o view_transform_fix_version(fix_version)
                                   \o T_quote>>
            ELSE <<>>
    IN
    IF Truthy(status) /\ ~view_validate_status(status)
    THEN [ret |-> <<>>, calls |-> <<>>, output |-> <<"invalid_status">>]
    ELSE
    LET status_parts ==
            IF Truthy(status) THEN <<T_status_eq \o status \o T_quote>> ELSE <<>>
        query_parts == label_parts \o status_parts \o version_parts
        call == [fn |-> "search_issues",
                 query |-> view_search_query(query_parts),
                 maxResults |-> max_results]
    IN
    IF search.raises
    THEN [ret |-> <<>>, calls |-> <<call>>, output |-> <<"search_error">>]
    ELSE [ret |-> search.issues, calls |-> <<call>>, output |-> <<>>]

\* jira.search_issues(search_query, maxResults=max_results) inside the try of
\* fetch_epics_by_criteria: `search` is what the tracker does with the call,
\* [raises |-> BOOLEAN, issues |-> the list it returns].
view_fetch_epics_by_criteria(label, fix_version, status, max_results, search) ==
    LET label_parts ==
            IF Truthy(label) THEN <<T_labels_eq \o label \o T_quote>> ELSE <<>>
    IN
    IF Truthy(fix_version) /\ ~view_validate_fix_version(fix_version)
    THEN [ret |-> <<>>, calls |-> <<>>, output |-> <<"invalid_fix_version">>]
    ELSE
    LET version_parts ==
            IF Truthy(fix_version)
            THEN <<T_fixVersion_eq \o view_transform_fix_version(fix_version)
                                   \o T_quote>>
            ELSE <<>>
    IN
    IF Truthy(status) /\ ~view_validate_status(status)
    THEN [ret |-> <<>>, calls |-> <<>>, output |-> <<"invalid_status">>]
    ELSE
    LET status_parts ==
            IF Truthy(status) THEN <<T_status_eq \o status \o T_quote>> ELSE <<>>
        query_parts == label_parts \o version_parts \o status_parts
        call == [fn |-> "search_issues",
                 query |-> view_search_query(query_parts),
                 maxResults |-> max_results]
    IN
    IF search.raises
    THEN [ret |-> <<>>, calls |-> <<call>>, output |-> <<"search_error">>]
    ELSE [ret |-> search.issues, calls |-> <<call>>, output |-> <<>>]

\* fetch_epics_for_status_summary(jira, label, fix_version, max_results):
\* no status clause, and the bare base query when there is no clause.
view_fetch_epics_for_status_summary(label, fix_version, max_results, search) ==
    LET label_parts ==
            IF Truthy(label) THEN <<T_labels_eq \o label \o T_quote>> ELSE <<>>
    IN
    IF Truthy(fix_version) /\ ~view_validate_fix_version(fix_version)
    THEN [ret |-> <<>>, calls |-> <<>>, output |-> <<"invalid_fix_version">>]
    ELSE
    LET version_parts ==
            IF Truthy(fix_version)
            THEN <<T_fixVersion_eq \o view_transform_fix_version(fix_version)
                                   \o T_quote>>
            ELSE <<>>
        query_parts == label_parts \o version_parts
        search_query == IF Len(query_parts) > 0
                        THEN base_query \o T_AND \o join(T_AND, query_parts)
                        ELSE base_query
        call == [fn |-> "search_issues", query |-> search_query,
                 maxResults |-> max_results]
    IN
    IF search.raises
    THEN [ret |-> <<>>, calls |-> <<call>>, output |-> <<"search_error">>]
    ELSE [ret |-> search.issues, calls |-> <<call>>, output |-> <<>>]

view_search_one_cap(inv) ==
    IF ~inv.connect_ok
    THEN [exit |-> 0, calls |-> <<[fn |-> "JIRA"]>>,
          output |-> <<"failed_to_connect">>]
    ELSE LET fetch == IF inv.status_summary
                      THEN view_fetch_epics_for_status_summary(
                               inv.label, inv.fix_version, inv.max_results,
                               inv.search)
                      ELSE view_fetch_epics_by_criteria(
                               inv.label, inv.fix_version, inv.status,
                               inv.max_results, inv.search)
         IN  [exit |-> 0, calls |-> <<[fn |-> "JIRA"]>> \o fetch.calls,
              output |-> fetch.output]

\* main of view.py after argument parsing, with the token set and no
\* --detailed-help: the connection and the search of the chosen mode.
view_search(inv) ==
    IF ~inv.connect_ok
    THEN \* connect_to_jira returns None and main returns
         [exit |-> 0, calls |-> <<[fn |-> "JIRA"]>>,
          output |-> <<"failed_to_connect">>]
    ELSE IF inv.status_summary
    THEN LET fetch == view_fetch_epics_for_status_summary(
                          inv.label, inv.fix_version, 1000, inv.search)
         IN  [exit |-> 0, calls |-> <<[fn |-> "JIRA"]>> \o fetch.calls,
              output |-> fetch.output \o <<"status_summary_completed">>]
    ELSE LET fetch == view_fetch_epics_by_criteria(
                          inv.label, inv.fix_version, inv.status,
                          inv.max_results, inv.search)
         IN  [exit |-> 0, calls |-> <<[fn |-> "JIRA"]>> \o fetch.calls,
              output |-> fetch.output \o <<"search_completed">>]

view_main_parses_first(inv) ==
    IF argparse_exit(inv.argv) >= 0
    THEN [exit |-> argparse_exit(inv.argv), calls |-> <<>>, output |-> <<>>]
    ELSE IF inv.argv = "detailed_help"
    THEN [exit |-> 0, calls |-> <<>>, output |-> <<"detailed_help">>]
    ELSE IF ~inv.token
    THEN [exit |-> 1, calls |-> <<>>, output |-> <<"token_not_set">>]
    ELSE view_search(inv)

\* view.py run as a program: [exit, calls, output]. The token is checked when
\* the module is loaded, before the command line is parsed.
view_main(inv) ==
    IF ~inv.token
    THEN [exit |-> 1, calls |-> <<>>, output |-> <<"token_not_set">>]
    ELSE IF argparse_exit(inv.argv) >= 0
    THEN [exit |-> argparse_exit(inv.argv), calls |-> <<>>, output |-> <<>>]
    ELSE IF inv.argv = "detailed_help"
    THEN [exit |-> 0, calls |-> <<>>, output |-> <<"detailed_help">>]
    ELSE view_search(inv)

\* ----------------------------------------------------------------- inputs

VersionInputs == StringsUpTo(VersionAlphabet, MaxVersionLen) \cup {None}

StatusInputs ==
    {None, <<>>, S_ToDo, S_InProgress, S_CodeReview, S_ON_QA, S_OnQA,
     S_Verified, S_Closed, S_todo, S_closed, S_InvalidStatus}

LabelInputs == {None, <<>>, L_X}

FilterStatusInputs ==
    {None, <<>>, S_InProgress, S_ON_QA, S_OnQA, S_todo, S_closed}

\* --max-results defaults of the two tools.
MaxResultsInputs == {20, 100}

\* What the tracker does with a search: it raises, finds nothing, or returns
\* epics.
SearchOutcomes ==
    {[raises |-> TRUE, issues |-> <<>>],
     [raises |-> FALSE, issues |-> <<>>],
     [raises |-> FALSE, issues |-> <<"RHSTOR-1001", "RHSTOR-1002">>]}

\* Names a field of the tracker may have.
FieldNames ==
    {N_EpicLink, N_EPIC_LINK, N_EpicName, N_EpicRelated, N_Summary,
     N_EpicStatus, N_ParentLink}

\* The id of the i-th field of the metadata list: ids are distinct.
FieldId(i) == T_customfield \o <<DigitChars[i]>>

FieldLists ==
    {[i \in 1..Len(names) |-> [name |-> names[i], id |-> FieldId(i)]] :
        names \in UNION {[1..k -> FieldNames] : k \in 0..MaxFields}}

\* What the tracker does with jira.fields(): it raises, or returns a list.
FieldsOutcomes ==
    {[raises |-> TRUE, fields |-> <<>>]}
        \cup {[raises |-> FALSE, fields |-> fl] : fl \in FieldLists}

\* The epics of the runs: with or without an assignee, labeled dev-preview
\* or not.
EpicsWithKey(key) ==
    {[key |-> key, summary |-> E_summary, assignee |-> a, labels |-> l] :
        a \in {None, User(U_testuser)}, l \in {<<>>, <<T_dev_preview>>}}

\* A template typed at the custom-template prompt, and one whose summary
\* names a placeholder format() is given no value for.
CUSTOM_TEMPLATE ==
    [summary |->
         <<"T","a","s","k"," ","f","o","r"," ","{","e","p","i","c","_","k","e","y","}">>,
     description |->
         <<"W","o","r","k"," ","r","e","l","a","t","e","d"," ","t","o"," ","e","p","i","c",
           " ","{","e","p","i","c","_","k","e","y","}",":"," ","{","e","p","i","c","_",
           "s","u","m","m","a","r","y","}">>,
     story_points |-> 2]

BAD_TEMPLATE ==
    [CUSTOM_TEMPLATE EXCEPT
         !.summary =
             <<"T","a","s","k"," ","{","o","w","n","e","r","}">>]

StoryTemplates ==
    {DEFAULT_STORY_TEMPLATES[1], DEFAULT_STORY_TEMPLATES[2], CUSTOM_TEMPLATE,
     BAD_TEMPLATE}

\* A tracker as create_story meets it: what jira.fields() answers and which
\* of its calls (first, second) raise, the summaries whose story the tracker
\* rejects, whether it accepts a link field inside create_issue, the field
\* ids issue.update accepts, its link types (none, Blocks, or Blocks,
\* Epic-Story Link and EPIC), whether create_issue_link succeeds, and the
\* number of issues created so far.
Trackers(summaries) ==
    [fields :
         {<<>>,
          <<[name |-> N_EpicLink, id |-> CF_10008]>>,
          <<[name |-> N_EpicStatus, id |-> CF_10014]>>,
          <<[name |-> N_Summary, id |-> CF_10002]>>,
          <<[name |-> N_Summary, id |-> CF_10002],
            [name |-> N_EpicLink, id |-> CF_10008]>>},
     fields_raises : SUBSET {1, 2},
     rejected : {{}} \cup {{s} : s \in summaries},
     link_at_create_ok : BOOLEAN,
     updatable : {{}, {CF_10014}, {CF_10002}, {CF_10008}},
     link_types :
         {[raises |-> TRUE, types |-> <<>>]}
             \cup {[raises |-> FALSE, types |-> lt] :
                      lt \in {<<>>,
                              <<<<"B","l","o","c","k","s">>>>,
                              <<<<"B","l","o","c","k","s">>,
                                <<"E","p","i","c","-","S","t","o","r","y"," ","L",
                                  "i","n","k">>,
                                <<"E","P","I","C">>>>}},
     issue_link_ok : BOOLEAN,
     created : {0}]

\* What the tracker does with the two searches of check_existing_stories:
\* which of them raises (0: none) and the stories they return.
ExistingOutcomes ==
    [raises : {0, 1, 2},
     kcs : {<<>>, <<"RHSTOR-2001">>, <<"RHSTOR-2001", "RHSTOR-2002">>},
     happy : {<<>>, <<"RHSTOR-2001">>, <<"RHSTOR-2001", "RHSTOR-2002">>}]

\* The epic lists of the runs: epic i has the i-th key.
EpicLists ==
    UNION {{epics \in [1..n -> UNION {EpicsWithKey(EpicKey(i)) : i \in 1..n}] :
                \A i \in 1..n : /\ epics[i].key = EpicKey(i)
                                /\ epics[i].assignee # None} :
           n \in 0..MaxEpics}

\* What the tracker does with the duplicate searches for one epic of a run:
\* both return, or the second raises after the first found a KCS story.
RunExistingOutcomes ==
    {e \in ExistingOutcomes :
        /\ Len(e.kcs) <= 1 /\ Len(e.happy) <= 1
        /\ e.raises # 1
        /\ e.raises = 2 => (e.kcs # <<>> /\ e.happy = <<>>)}

\* The template arguments of the runs: auto mode (no list), the default
\* list, kcs, happy, and custom lists.
TemplateArguments ==
    {[story_templates |-> <<>>, auto_mode |-> TRUE]}
        \cup {[story_templates |-> st, auto_mode |-> FALSE] :
                 st \in {DEFAULT_STORY_TEMPLATES,
                         <<DEFAULT_STORY_TEMPLATES[1]>>,
                         <<DEFAULT_STORY_TEMPLATES[2]>>,
                         <<CUSTOM_TEMPLATE>>,
                         <<BAD_TEMPLATE, CUSTOM_TEMPLATE>>}}

\* The first epic, assigned and without labels.
first_epic ==
    [key |-> EpicKey(1), summary |-> E_summary, assignee |-> User(U_testuser),
     labels |-> <<>>]

\* The trackers of the runs: one that accepts everything and takes the link
\* field at creation, one that rejects the KCS story of the first epic, one
\* without an Epic Link field that rejects the custom story of the first epic
\* and links by an update of customfield_10014, one on which no linkage
\* method works, and one on which only the generic issue link works.
linking_tracker ==
    [fields |-> <<[name |-> N_EpicLink, id |-> CF_10008]>>,
     fields_raises |-> {}, rejected |-> {}, link_at_create_ok |-> TRUE,
     updatable |-> {}, link_types |-> [raises |-> TRUE, types |-> <<>>],
     issue_link_ok |-> FALSE, created |-> 0]

RunTrackers ==
    {linking_tracker,
     [linking_tracker EXCEPT
          !.rejected = {summary_for(DEFAULT_STORY_TEMPLATES[1], first_epic)}],
     [linking_tracker EXCEPT !.fields = <<>>, !.updatable = {CF_10014},
                             !.rejected = {summary_for(CUSTOM_TEMPLATE, first_epic)}],
     [linking_tracker EXCEPT !.fields = <<>>],
     [linking_tracker EXCEPT
          !.fields = <<>>, !.issue_link_ok = TRUE,
          !.link_types = [raises |-> FALSE,
                          types |-> <<<<"B","l","o","c","k","s">>>>]]}

\* No story of either kind exists, for each of n epics.
nothing_exists(n) ==
    [i \in 1..n |-> [raises |-> 0, kcs |-> <<>>, happy |-> <<>>]]

\* An invocation that, left alone, connects, finds nothing and ends.
base_invocation ==
    [argv |-> "run", token |-> TRUE, connect_ok |-> TRUE, debug |-> FALSE,
     templates |-> "auto", typed |-> <<>>, label |-> L_X, fix_version |-> None,
     status |-> None, status_summary |-> FALSE, max_results |-> 20,
     search |-> [raises |-> FALSE, issues |-> <<>>], existing |-> <<>>,
     dry_run |-> FALSE,
     answer |-> <<"y">>, tracker |-> linking_tracker]

\* Invocations that differ in how far the start gets: the command line (a
\* run, --detailed-help, -h, -V, or one argparse rejects), the token, the
\* connection; the search would find nothing or one epic.
StartInvocations ==
    {[base_invocation EXCEPT !.argv = a, !.token = tk, !.connect_ok = c,
                             !.debug = d, !.status_summary = ss,
                             !.search = [raises |-> FALSE, issues |-> epics],
                             !.existing = nothing_exists(Len(epics))] :
        a \in {"run", "detailed_help", "help", "version", "usage_error"},
        tk \in BOOLEAN, c \in BOOLEAN, d \in BOOLEAN,
        ss \in BOOLEAN, epics \in {<<>>, <<first_epic>>}}

\* Invocations that differ in the filters and in what the search does.
FilterInvocations ==
    {[base_invocation EXCEPT !.label = l, !.fix_version = fv, !.status = s,
                             !.status_summary = ss, !.max_results = m,
                             !.search = sr] :
        l \in {None, L_X}, fv \in {None, <<"4", ".", "4">>, <<"v">>},
        s \in {None, S_InProgress, S_InvalidStatus}, ss \in BOOLEAN,
        m \in MaxResultsInputs,
        sr \in {[raises |-> TRUE, issues |-> <<>>],
                [raises |-> FALSE, issues |-> <<>>]}}

\* --templates and what is typed at the custom-template prompts.
TemplateChoices ==
    {[templates |-> tt, typed |-> <<>>] :
        tt \in {"auto", "default", "kcs", "happy", "custom"}}
        \cup {[templates |-> "custom", typed |-> ty] :
                 ty \in {<<CUSTOM_TEMPLATE>>, <<BAD_TEMPLATE, CUSTOM_TEMPLATE>>}}

\* Invocations of the stories tool that find epics; an is what the user
\* types at the confirmation prompt.
RunInvocations ==
    {[base_invocation EXCEPT !.templates = tc.templates, !.typed = tc.typed,
                             !.debug = d,
                             !.search = [raises |-> FALSE, issues |-> epics],
                             !.existing = ex, !.dry_run = dr, !.answer = an,
                             !.tracker = tr] :
        tc \in TemplateChoices, d \in BOOLEAN,
        epics \in EpicLists \ {<<>>}, dr \in BOOLEAN,
        an \in {<<"y">>, <<" ", "Y", "E", "S", "\n">>, <<"n">>, <<>>},
        tr \in {linking_tracker, [linking_tracker EXCEPT !.fields = <<>>]},
        ex \in UNION {[1..n -> {e \in RunExistingOutcomes : e.happy = <<>>}] :
                         n \in 1..MaxEpics}}

\* ----------------------------------------------------------------- actions

\* No function is running: the state before a call and after its return.
Idle ==
    /\ op = "idle"
    /\ tool = "none"
    /\ args = <<>>
    /\ result = None
    /\ calls = <<>>
    /\ output = <<>>

Init == Idle

StoriesValidateFixVersion ==
    /\ op = "idle"
    /\ \E v \in VersionInputs :
           /\ op' = "validate_fix_version"
           /\ tool' = "stories"
           /\ args' = [version |-> v]
           /\ result' = stories_validate_fix_version(v)
           /\ calls' = <<>>
           /\ output' = <<>>

ViewValidateFixVersion ==
    /\ op = "idle"
    /\ \E v \in VersionInputs :
           /\ op' = "validate_fix_version"
           /\ tool' = "view"
           /\ args' = [version |-> v]
           /\ result' = view_validate_fix_version(v)
           /\ calls' = <<>>
           /\ output' = <<>>

StoriesTransformFixVersion ==
    /\ op = "idle"
    /\ \E v \in VersionInputs :
           /\ op' = "transform_fix_version"
           /\ tool' = "stories"
           /\ args' = [fix_version |-> v]
           /\ result' = stories_transform_fix_version(v)
           /\ calls' = <<>>
           /\ output' = <<>>

ViewTransformFixVersion ==
    /\ op = "idle"
    /\ \E v \in VersionInputs :
           /\ op' = "transform_fix_version"
           /\ tool' = "view"
           /\ args' = [fix_version |-> v]
           /\ result' = view_transform_fix_version(v)
           /\ calls' = <<>>
           /\ output' = <<>>

StoriesValidateStatus ==
    /\ op = "idle"
    /\ \E s \in StatusInputs :
           /\ op' = "validate_status"
           /\ tool' = "stories"
           /\ args' = [status |-> s]
           /\ result' = stories_validate_status(s)
           /\ calls' = <<>>
           /\ output' = <<>>

ViewValidateStatus ==
    /\ op = "idle"
    /\ \E s \in StatusInputs :
           /\ op' = "validate_status"
           /\ tool' = "view"
           /\ args' = [status |-> s]
           /\ result' = view_validate_status(s)
           /\ calls' = <<>>
           /\ output' = <<>>

StoriesFetchEpicsByCriteria ==
    /\ op = "idle"
    /\ \E l \in LabelInputs, v \in VersionInputs, s \in FilterStatusInputs,
             m \in MaxResultsInputs, search \in SearchOutcomes :
           LET r == stories_fetch_epics_by_criteria(l, v, s, m, search) IN
           /\ op' = "fetch_epics_by_criteria"
           /\ tool' = "stories"
           /\ args' = [label |-> l, fix_version |-> v, status |-> s,
                       max_results |-> m, search |-> search]
           /\ result' = r.ret
           /\ calls' = r.calls
           /\ output' = r.output

ViewFetchEpicsByCriteria ==
    /\ op = "idle"
    /\ \E l \in LabelInputs, v \in VersionInputs, s \in FilterStatusInputs,
             m \in MaxResultsInputs, search \in SearchOutcomes :
           LET r == view_fetch_epics_by_criteria(l, v, s, m, search) IN
           /\ op' = "fetch_epics_by_criteria"
           /\ tool' = "view"
           /\ args' = [label |-> l, fix_version |-> v, status |-> s,
                       max_results |-> m, search |-> search]
           /\ result' = r.ret
           /\ calls' = r.calls
           /\ output' = r.output

StoriesFindEpicLinkField ==
    /\ op = "idle"
    /\ \E jira_fields \in FieldsOutcomes :
           /\ op' = "find_epic_link_field"
           /\ tool' = "stories"
           /\ args' = [jira_fields |-> jira_fields]
           /\ result' = find_epic_link_field(jira_fields)
           /\ calls' = <<[fn |-> "fields"]>>
           /\ output' = <<>>

StoriesCreateStory ==
    /\ op = "idle"
    /\ \E epic \in EpicsWithKey(EpicKey(1)), template \in StoryTemplates :
       \E tracker \in Trackers({summary_for(DEFAULT_STORY_TEMPLATES[1], epic)}) :
           LET r == create_story(epic, template, tracker)
           IN  /\ op' = "create_story"
               /\ tool' = "stories"
               /\ args' = [epic |-> epic, template |-> template, tracker |-> tracker]
               /\ result' = r.ret
               /\ calls' = r.calls
               /\ output' = r.output

StoriesCheckExistingStories ==
    /\ op = "idle"
    /\ \E key \in {EpicKey(1), EpicKey(2)} :
       \E epic \in EpicsWithKey(key), existing \in ExistingOutcomes :
           LET r == check_existing_stories(epic, existing)
           IN  /\ op' = "check_existing_stories"
               /\ tool' = "stories"
               /\ args' = [epic |-> epic, existing |-> existing]
               /\ result' = r.ret
               /\ calls' = r.calls
               /\ output' = r.output

StoriesCreateStoriesForEpics ==
    /\ op = "idle"
    /\ \E epics \in EpicLists, templates \in TemplateArguments,
          dry_run \in BOOLEAN, tracker \in RunTrackers :
       \E existing \in [1..Len(epics) -> RunExistingOutcomes] :
           LET r == create_stories_for_epics(epics, templates.story_templates,
                                             dry_run, templates.auto_mode,
                                             existing, tracker)
           IN  /\ op' = "create_stories_for_epics"
               /\ tool' = "stories"
               /\ args' = [epics |-> epics,
                           story_templates |-> templates.story_templates,
                           dry_run |-> dry_run,
                           auto_mode |-> templates.auto_mode,
                           existing |-> existing, tracker |-> tracker]
               /\ result' = r.ret
               /\ calls' = r.calls
               /\ output' = r.output

\* A second run of create_stories_for_epics without --dry-run, for the same
\* epics and templates, on the tracker the first run left behind.
StoriesCreateStoriesForEpicsAgain ==
    /\ op = "create_stories_for_epics"
    /\ ~args.dry_run
    /\ LET existing == existing_after(args.existing, calls, args.tracker,
                                      args.epics)
           tracker == tracker_after(calls, args.tracker)
           ran(r) ==
               /\ result' = r.ret
               /\ calls' = r.calls
               /\ output' = r.output
       IN  /\ op' = "create_stories_for_epics_again"
           /\ tool' = "stories"
           /\ args' = [epics |-> args.epics,
                       story_templates |-> args.story_templates,
                       dry_run |-> FALSE, auto_mode |-> args.auto_mode,
                       existing |-> existing, tracker |-> tracker,
                       before |-> [existing |-> args.existing,
                                   tracker |-> args.tracker, calls |-> calls]]
           /\ ran(create_stories_for_epics(args.epics, args.story_templates,
                                           FALSE, args.auto_mode, existing,
                                           tracker))

\* stories.py run as a program; argparse admits --status only with one of the
\* allowed statuses (choices=ALLOWED_STATUSES).
StoriesMain ==
    /\ op = "idle"
    /\ \E inv \in StartInvocations \cup FilterInvocations \cup RunInvocations :
           /\ Len(inv.existing) = Len(inv.search.issues)
           /\ inv.status = None \/ in_list(inv.status, stories_ALLOWED_STATUSES)
           /\ LET r == stories_main(inv)
              IN  /\ op' = "main"
                  /\ tool' = "stories"
                  /\ args' = inv
                  /\ result' = r.exit
                  /\ calls' = r.calls
                  /\ output' = r.output

ViewMain ==
    /\ op = "idle"
    /\ \E inv \in StartInvocations \cup FilterInvocations :
           LET r == view_main(inv)
           IN  /\ op' = "main"
               /\ tool' = "view"
               /\ args' = inv
               /\ result' = r.exit
               /\ calls' = r.calls
               /\ output' = r.output

\* The caller takes the result; the next call starts from a fresh state (no
\* function of the tools keeps state between calls).
Return ==
    /\ op # "idle"
    /\ op' = "idle"
    /\ tool' = "none"
    /\ args' = <<>>
    /\ result' = None
    /\ calls' = <<>>
    /\ output' = <<>>

\* The validators and the transformer, called on their own.
NextValidators ==
    \/ StoriesValidateFixVersion
    \/ ViewValidateFixVersion
    \/ StoriesTransformFixVersion
    \/ ViewTransformFixVersion
    \/ StoriesValidateStatus
    \/ ViewValidateStatus
    \/ Return

SpecValidators == Init /\ [][NextValidators]_vars

\* The query builder.
NextFetch ==
    \/ StoriesFetchEpicsByCriteria
    \/ ViewFetchEpicsByCriteria
    \/ Return

SpecFetch == Init /\ [][NextFetch]_vars

\* The Epic-Link field resolver.
NextResolver ==
    \/ StoriesFindEpicLinkField
    \/ Return

SpecResolver == Init /\ [][NextResolver]_vars

\* Story creation: the duplicate checker, the story creator and the batch.
NextCreation ==
    \/ StoriesCheckExistingStories
    \/ StoriesCreateStory
    \/ StoriesCreateStoriesForEpics
    \/ StoriesCreateStoriesForEpicsAgain
    \/ Return

SpecCreation == Init /\ [][NextCreation]_vars

\* The two programs.
NextMain ==
    \/ StoriesMain
    \/ ViewMain
    \/ Return

SpecMain == Init /\ [][NextMain]_vars

Next ==
    \/ StoriesValidateFixVersion
    \/ ViewValidateFixVersion
    \/ StoriesTransformFixVersion
    \/ ViewTransformFixVersion
    \/ StoriesValidateStatus
    \/ ViewValidateStatus
    \/ StoriesFetchEpicsByCriteria
    \/ ViewFetchEpicsByCriteria
    \/ StoriesFindEpicLinkField
    \/ StoriesCreateStory
    \/ StoriesCheckExistingStories
    \/ StoriesCreateStoriesForEpics
    \/ StoriesCreateStoriesForEpicsAgain
    \/ StoriesMain
    \/ ViewMain
    \/ Return

Spec == Init /\ [][Next]_vars

\* ------------------------------------------------------------------ claims

\* An optional string argument that was supplied: neither None nor empty.
Supplied(x) == x # None /\ Len(x) > 0

\* Two or three non-empty digit runs separated by single dots.
IsDottedDigitRuns(s) ==
    LET dots == {i \in 1..Len(s) : s[i] = "."}
    IN  /\ Len(s) > 0
        /\ Cardinality(dots) \in {1, 2}
        /\ \A i \in (1..Len(s)) \ dots : s[i] \in AsciiDigits
        /\ 1 \notin dots /\ Len(s) \notin dots
        /\ \A i \in dots : (i + 1) \notin dots

\* Number of dot-separated components of a string.
Components(s) == Cardinality({i \in 1..Len(s) : s[i] = "."}) + 1

\* The allowed statuses as the source lists them (the same six in both tools).
AllowedStatusSet ==
    {S_ToDo, S_InProgress, S_CodeReview, S_ON_QA, S_Verified, S_Closed}

\* The validator of the tool the state's call belongs to.
FixVersionPasses(v) ==
    IF tool = "stories" THEN stories_validate_fix_version(v)
    ELSE view_validate_fix_version(v)

Fetching == op = "fetch_epics_by_criteria"

\* C1: in fetch_epics_by_criteria of both tools, a non-empty fix-version that
\* fails validation, or a non-empty status outside the allowed set, makes the
\* call return an empty list without any search_issues call, whatever the
\* other filters are.
C1_InvalidFilterNoSearch ==
    (Fetching /\ (\/ Supplied(args.fix_version) /\ ~FixVersionPasses(args.fix_version)
                  \/ Supplied(args.status) /\ args.status \notin AllowedStatusSet))
        => (result = <<>> /\ calls = <<>>)

\* C1 witness: a valid label is given first, the status is a case variant of
\* an allowed one, and nothing was searched.
C1_Witness ==
    /\ Fetching /\ tool = "stories"
    /\ args.label = L_X /\ args.fix_version = <<"4", ".", "4">>
    /\ args.status = S_closed
    /\ result = <<>> /\ calls = <<>> /\ output = <<"invalid_status">>

\* " AND <field> = "<value>"": one equality clause of the expected query.
AndClause(prefix, value) == T_AND \o prefix \o value \o T_quote

\* The query the claim describes: the base clause, then one clause per
\* supplied filter in the order label, fixVersion (transformed tag), status.
ExpectedQuery(label, fix_version, status) ==
    base_query
        \o (IF Supplied(label) THEN AndClause(T_labels_eq, label) ELSE <<>>)
        \o (IF Supplied(fix_version)
            THEN AndClause(T_fixVersion_eq,
                           <<"O", "D", "F", " ", "v">> \o fix_version \o <<".", "0">>)
            ELSE <<>>)
        \o (IF Supplied(status) THEN AndClause(T_status_eq, status) ELSE <<>>)

\* C2: with at least one filter supplied and the supplied fix-version and
\* status valid, fetch_epics_by_criteria issues exactly one search, whose query
\* is the base clause followed by the AND-joined clauses of exactly the
\* supplied filters in the order label, fixVersion, status.
C2_QueryClausesInOrder ==
    (/\ Fetching
     /\ Supplied(args.label) \/ Supplied(args.fix_version) \/ Supplied(args.status)
     /\ Supplied(args.fix_version) => FixVersionPasses(args.fix_version)
     /\ Supplied(args.status) => args.status \in AllowedStatusSet)
        => /\ Len(calls) = 1
           /\ calls[1].fn = "search_issues"
           /\ calls[1].query =
                  ExpectedQuery(args.label, args.fix_version, args.status)

\* C2 witness: all three filters supplied to the view tool and searched for.
C2_Witness ==
    /\ Fetching /\ tool = "view"
    /\ args.label = L_X /\ args.fix_version = <<"4", ".", "4">>
    /\ args.status = S_InProgress
    /\ Len(calls) = 1
    /\ calls[1].query = base_query \o T_AND \o T_labels_eq \o L_X \o T_quote
                            \o T_AND \o T_fixVersion_eq
                            \o <<"O", "D", "F", " ", "v", "4", ".", "4", ".", "0">>
                            \o T_quote
                            \o T_AND \o T_status_eq \o S_InProgress \o T_quote

\* The default query, written out.
DefaultQuery ==
    <<"p","r","o","j","e","c","t"," ","="," ","R","H","S","T","O","R"," ","A","N","D"," ","i",
      "s","s","u","e","t","y","p","e"," ","="," ","E","p","i","c"," ","A","N","D"," ","l","a",
      "b","e","l","s"," ","="," ","\"","O","D","F","-","4",".","1","9","-","c","a","n","d","i",
      "d","a","t","e","\"">>

\* C3: with no label, fix-version or status supplied (absent or empty),
\* fetch_epics_by_criteria issues exactly one search, for the base clause ANDed
\* with labels = "ODF-4.19-candidate"; no search is ever for the bare base
\* clause.
C3_DefaultLabelFallback ==
    Fetching =>
        /\ (~Supplied(args.label) /\ ~Supplied(args.fix_version)
                /\ ~Supplied(args.status))
              => (Len(calls) = 1 /\ calls[1].query = DefaultQuery)
        /\ \A i \in 1..Len(calls) : calls[i].query # base_query

\* C3 witness: the stories tool called with an empty label and no other
\* filter searched for the default label.
C3_Witness ==
    /\ Fetching /\ tool = "stories"
    /\ args.label = <<>> /\ args.fix_version = None /\ args.status = None
    /\ Len(calls) = 1 /\ calls[1].query = DefaultQuery

\* C4: validate_fix_version is true for every non-empty string of two or three
\* non-empty digit runs separated by single dots and false for every other
\* non-empty string; for empty or absent input it is true in the stories tool
\* and false in the view tool.
C4_ValidateFixVersion ==
    op = "validate_fix_version" =>
        IF Supplied(args.version)
        THEN result = IsDottedDigitRuns(args.version)
        ELSE result = (tool = "stories")

\* C5: transform_fix_version returns None for empty or absent input and
\* otherwise 'ODF v' + input + '.0' unchanged, in both tools, so that a
\* three-component version yields a four-component tag.
C5_TransformConcatenates ==
    op = "transform_fix_version" =>
        LET v == args.fix_version IN
        IF ~Supplied(v) THEN result = None
        ELSE /\ Len(result) = Len(v) + 7
             /\ SubSeq(result, 1, 5) = <<"O", "D", "F", " ", "v">>
             /\ SubSeq(result, 6, Len(v) + 5) = v
             /\ SubSeq(result, Len(v) + 6, Len(v) + 7) = <<".", "0">>
             /\ (IsDottedDigitRuns(v) /\ Components(v) = 3)
                    => Components(SubSeq(result, 6, Len(result))) = 4

\* C5 witness: '4.4.4' became 'ODF v4.4.4.0' in the stories tool.
C5_Witness ==
    /\ op = "transform_fix_version" /\ tool = "stories"
    /\ args.fix_version = <<"4", ".", "4", ".", "4">>
    /\ result = <<"O", "D", "F", " ", "v", "4", ".", "4", ".", "4", ".", "0">>

\* The allowed-status list of the tool the state's call belongs to.
AllowedStatusList ==
    IF tool = "stories" THEN stories_ALLOWED_STATUSES ELSE view_ALLOWED_STATUSES

\* C6: validate_status is true exactly for the strings equal, case included,
\* to a member of the tool's allowed-status list, and false for everything
\* else, the empty string and case variants included.
C6_ValidateStatusExactMember ==
    op = "validate_status" =>
        /\ result = (\E i \in 1..Len(AllowedStatusList) :
                        AllowedStatusList[i] = args.status)
        /\ args.status \in {None, <<>>, S_todo, S_closed, S_InvalidStatus}
              => result = FALSE

\* C6 witness: the view tool rejected 'closed', a case variant of 'Closed'.
C6_Witness ==
    /\ op = "validate_status" /\ tool = "view"
    /\ args.status = S_closed
    /\ result = FALSE

\* C7: the two tools use different allowed-status sets: the view tool accepts
\* 'On QA' and rejects 'ON_QA', the stories tool accepts 'ON_QA'.
C7_StatusSetsDiffer ==
    op = "validate_status" =>
        /\ (tool = "view" /\ args.status = S_OnQA) => result = TRUE
        /\ (tool = "view" /\ args.status = S_ON_QA) => result = FALSE
        /\ (tool = "stories" /\ args.status = S_ON_QA) => result = TRUE

Resolving == op = "find_epic_link_field" /\ ~args.jira_fields.raises

\* The indices of the fields of the call's metadata list named by `names`.
FieldsNamed(names) ==
    {i \in 1..Len(args.jira_fields.fields) :
        args.jira_fields.fields[i].name \in names}

\* Field names that equal 'epic link' when case is ignored.
EpicLinkNames == {N_EpicLink, N_EPIC_LINK}

\* Field names of tier 1: 'epic link' or 'epic name', case ignored.
Tier1Names == {N_EpicLink, N_EPIC_LINK, N_EpicName}

\* Field names of tier 2 only: containing 'epic' and 'link', not in tier 1.
Tier2OnlyNames == {N_EpicRelated}

\* C8: for every field-metadata list with exactly one field named 'Epic Link'
\* (case ignored), find_epic_link_field returns the id of that field, whatever
\* the other fields and their order.
C8_ReturnsTheEpicLinkField ==
    (Resolving /\ Cardinality(FieldsNamed(EpicLinkNames)) = 1)
        => \E i \in FieldsNamed(EpicLinkNames) :
               result = args.jira_fields.fields[i].id

\* C9: a tier-1 match always wins over a tier-2 match: if any field matches
\* tier 1 the returned id is that of a tier-1 field, also when a tier-2-only
\* field comes earlier, and the id of a tier-2-only field is returned only
\* when no field matches tier 1.
C9_Tier1WinsOverTier2 ==
    Resolving =>
        /\ FieldsNamed(Tier1Names) # {}
              => \E i \in FieldsNamed(Tier1Names) :
                     result = args.jira_fields.fields[i].id
        /\ (\E i \in FieldsNamed(Tier2OnlyNames) :
                result = args.jira_fields.fields[i].id)
              => FieldsNamed(Tier1Names) = {}

\* C9 witness: 'Epic-related-thing-link' comes first, 'Epic Link' second, and
\* the id of the second field was returned.
C9_Witness ==
    /\ Resolving
    /\ Len(args.jira_fields.fields) = 2
    /\ args.jira_fields.fields[1].name = N_EpicRelated
    /\ args.jira_fields.fields[2].name = N_EpicLink
    /\ result = FieldId(2)

\* C10: find_epic_link_field returns None, and raises nothing, when no field
\* name matches either tier and when jira.fields() itself fails.
C10_NoMatchReturnsNone ==
    op = "find_epic_link_field" =>
        /\ result # Raised
        /\ (\/ args.jira_fields.raises
            \/ FieldsNamed(Tier1Names \cup Tier2OnlyNames) = {})
              => result = None

\* C10 witness: the fields 'Epic Status' and 'Parent Link', each holding half
\* of the tier-2 test, gave None.
C10_Witness ==
    /\ Resolving
    /\ Len(args.jira_fields.fields) = 2
    /\ args.jira_fields.fields[1].name = N_EpicStatus
    /\ args.jira_fields.fields[2].name = N_ParentLink
    /\ result = None

\* A call of create_story has returned.
Creating == op = "create_story"

\* A template text rendered for the epic of the call.
Rendered(text) == str_format(text, args.epic.key, args.epic.summary)

\* Both texts of the template of the call render.
TemplateRenders ==
    /\ Rendered(args.template.summary) # Raised
    /\ Rendered(args.template.description) # Raised

\* The field id resolved before creation on the tracker of the call.
ResolvedBeforeCreation ==
    find_epic_link_field([raises |-> 1 \in args.tracker.fields_raises,
                          fields |-> args.tracker.fields])

\* The functions of the jira client called after the n-th call.
CallsAfter(n) == {calls[i].fn : i \in (n + 1)..Len(calls)}

LinkageCalls == {"update", "fields", "issue_link_types", "create_issue_link"}

\* C11: when the Epic-Link field id is resolved before creation, create_story
\* sends one create_issue whose fields hold that id set to the epic's key,
\* project RHSTOR, issue type Story, the rendered summary, the label kcs for
\* the KCS template and the epic's assignee by name when it has one, and
\* calls nothing afterwards: no update, no second field listing, no link-type
\* listing, no create_issue_link.
C11_LinkSentAtCreation ==
    (Creating /\ TemplateRenders /\ Truthy(ResolvedBeforeCreation)) =>
        /\ Len(calls) = 2
        /\ calls[1].fn = "fields"
        /\ calls[2].fn = "create_issue"
        /\ CallsAfter(2) = {}
        /\ LET fields == calls[2].fields
           IN  /\ fields.project = [key |-> T_RHSTOR]
               /\ fields.issuetype = [name |-> T_Story]
               /\ fields.summary = Rendered(args.template.summary)
               /\ fields.epic_link =
                      <<[id |-> ResolvedBeforeCreation, value |-> args.epic.key]>>
               /\ (args.template = DEFAULT_STORY_TEMPLATES[1]
                      => fields.labels = <<T_kcs>>)
               /\ fields.assignee =
                      IF args.epic.assignee = None THEN <<>>
                      ELSE <<[name |-> args.epic.assignee[2]]>>

\* The KCS story of RHSTOR-1234, assigned to testuser, is created with
\* customfield_10008 set to the epic's key.
C11_Witness ==
    /\ Creating
    /\ args.template = DEFAULT_STORY_TEMPLATES[1]
    /\ args.epic.assignee = User(U_testuser)
    /\ result = Issue(K_story \o <<"1">>)
    /\ Len(calls) = 2
    /\ calls[2].fn = "create_issue"
    /\ calls[2].fields.summary = T_KCS_story_for \o <<" ">> \o EpicKey(1)
    /\ calls[2].fields.labels = <<T_kcs>>
    /\ calls[2].fields.assignee = <<[name |-> U_testuser]>>
    /\ calls[2].fields.epic_link = <<[id |-> CF_10008, value |-> EpicKey(1)]>>

\* The tracker of the call rejects a create_issue with these fields: the story
\* itself, or the link field sent with it.
TrackerRejects(fields) ==
    \/ fields.summary \in args.tracker.rejected
    \/ fields.epic_link # <<>> /\ ~args.tracker.link_at_create_ok

\* The positions of the create_issue calls of the call.
CreateIssueCalls == {i \in 1..Len(calls) : calls[i].fn = "create_issue"}

\* C12: when create_issue raises, create_story returns None and calls
\* neither update nor issue_link_types nor create_issue_link afterwards.
C12_CreationFailureReturnsNone ==
    Creating =>
        \A i \in CreateIssueCalls :
            TrackerRejects(calls[i].fields) =>
                /\ result = None
                /\ CallsAfter(i) \cap {"update", "issue_link_types", "create_issue_link"} = {}

\* The tracker rejects a story no link field was sent with, on a tracker where
\* an update of customfield_10014 would have linked it.
C12_Witness ==
    /\ Creating
    /\ \E i \in CreateIssueCalls :
           /\ calls[i].fields.summary \in args.tracker.rejected
           /\ calls[i].fields.epic_link = <<>>
    /\ args.tracker.updatable = {CF_10014}
    /\ result = None
    /\ output = <<"error_creating_story">>

\* A call of check_existing_stories has returned.
Checking == op = "check_existing_stories"

\* C13: check_existing_stories fails open. When either of its two searches
\* raises, the second after a successful first included, it returns has_kcs
\* and has_happy false with both lists empty and raises nothing; when both
\* return, each flag is true exactly when its list is non-empty.
C13_DuplicateCheckFailsOpen ==
    Checking =>
        /\ DOMAIN result = {"kcs", "happy", "has_kcs", "has_happy"}
        /\ IF args.existing.raises # 0
           THEN /\ ~result.has_kcs /\ ~result.has_happy
                /\ result.kcs = <<>> /\ result.happy = <<>>
           ELSE /\ result.kcs = args.existing.kcs
                /\ result.happy = args.existing.happy
                /\ result.has_kcs = (result.kcs # <<>>)
                /\ result.has_happy = (result.happy # <<>>)

\* The first search found a KCS story and the second raised.
C13_Witness ==
    /\ Checking
    /\ args.existing.raises = 2
    /\ args.existing.kcs # <<>>
    /\ Len(calls) = 2
    /\ calls[2].query = DQ_prefix \o args.epic.key \o DQ_happy
    /\ ~result.has_kcs
    /\ result.kcs = <<>>

\* A call of create_stories_for_epics has returned.
Batching == op = "create_stories_for_epics"

EpicIndices == 1..Len(args.epics)

\* The duplicate check reported a KCS (a Happy-Path) story for epic i.
ReportedKcs(i) == args.existing[i].raises = 0 /\ args.existing[i].kcs # <<>>

ReportedHappy(i) == args.existing[i].raises = 0 /\ args.existing[i].happy # <<>>

DevPreview(i) == \E k \in 1..Len(args.epics[i].labels) :
                     args.epics[i].labels[k] = T_dev_preview

\* The create_issue calls of the run whose summary is text followed by the
\* key of epic i.
CreatesFor(text, i) ==
    {j \in 1..Len(calls) :
        /\ calls[j].fn = "create_issue"
        /\ calls[j].fields.summary = text \o <<" ">> \o args.epics[i].key}

\* The write calls of the jira client.
WriteCalls == {"create_issue", "update", "create_issue_link"}

Writes == {j \in 1..Len(calls) : calls[j].fn \in WriteCalls}

\* C14: in auto mode without dry-run, each epic gets exactly one create_issue
\* with the KCS template when it is labeled dev-preview and no KCS story is
\* reported, exactly one with the Happy-Path template when it is not labeled
\* dev-preview and no Happy-Path story is reported, and no create_issue
\* otherwise; never both templates for one epic.
C14_AutoModeOneStoryPerEpic ==
    (Batching /\ args.auto_mode /\ ~args.dry_run) =>
        /\ result = None
        /\ \A i \in EpicIndices :
               /\ Cardinality(CreatesFor(T_KCS_story_for, i)) =
                      IF DevPreview(i) /\ ~ReportedKcs(i) THEN 1 ELSE 0
               /\ Cardinality(CreatesFor(T_Happy_story_for, i)) =
                      IF ~DevPreview(i) /\ ~ReportedHappy(i) THEN 1 ELSE 0
        /\ Cardinality({j \in 1..Len(calls) : calls[j].fn = "create_issue"}) =
               Cardinality({i \in EpicIndices :
                               \/ DevPreview(i) /\ ~ReportedKcs(i)
                               \/ ~DevPreview(i) /\ ~ReportedHappy(i)})

\* A dev-preview epic without a KCS story gets its KCS story, and a regular
\* epic that has a Happy-Path story gets nothing.
C14_Witness ==
    /\ Batching /\ args.auto_mode /\ ~args.dry_run
    /\ Len(args.epics) = 2
    /\ DevPreview(1) /\ ~ReportedKcs(1) /\ ReportedHappy(1)
    /\ ~DevPreview(2) /\ ReportedHappy(2) /\ ~ReportedKcs(2)
    /\ Cardinality(CreatesFor(T_KCS_story_for, 1)) = 1
    /\ CreatesFor(T_Happy_story_for, 1) = {}
    /\ CreatesFor(T_KCS_story_for, 2) = {}
    /\ CreatesFor(T_Happy_story_for, 2) = {}

\* The duplicate searches of the run for epic i.
DuplicateSearches(i) ==
    {j \in 1..Len(calls) :
        /\ calls[j].fn = "search_issues"
        /\ calls[j].query \in {DQ_prefix \o args.epics[i].key \o DQ_kcs,
                               DQ_prefix \o args.epics[i].key \o DQ_happy}}

\* C15: a dry run issues no write call (no create_issue, no update, no
\* create_issue_link), whatever the epics, the templates and the answers of
\* the duplicate check, and still performs the duplicate-check searches for
\* every epic.
C15_DryRunChecksEveryEpicWritesNothing ==
    (Batching /\ args.dry_run) =>
        /\ Writes = {}
        /\ \A i \in EpicIndices : DuplicateSearches(i) # {}

\* The part of C15 the code keeps: no write call in a dry run.
DryRunWritesNothing == (Batching /\ args.dry_run) => Writes = {}

\* The templates selected for epic i of the run.
Selected(i) ==
    epic_templates(args.epics[i], args.story_templates, args.auto_mode,
                   check_existing_stories(args.epics[i], args.existing[i]).ret)

\* The run reports an attempt (created or failed) for template j of epic i.
Attempted(i, j) ==
    \E k \in 1..Len(output) :
        /\ output[k].event \in {"created_story", "failed_to_create"}
        /\ output[k].epic = args.epics[i].key
        /\ output[k].n = j

\* C19: a failed story creation is isolated. Whatever pair of epic and
\* template fails, create_stories_for_epics attempts every other selected
\* template of that epic and every other epic, and returns normally.
C19_FailureIsIsolated ==
    (Batching /\ ~args.dry_run) =>
        /\ result = None
        /\ \A i \in EpicIndices :
               /\ DuplicateSearches(i) # {}
               /\ \A j \in 1..Len(Selected(i)) : Attempted(i, j)

\* Every template of the run formats for every epic.
TemplatesRender ==
    \A i \in EpicIndices :
        \A j \in 1..Len(templates_or_default(args.story_templates)) :
            LET template == templates_or_default(args.story_templates)[j]
            IN  /\ str_format(template.summary, args.epics[i].key,
                              args.epics[i].summary) # Raised
                /\ str_format(template.description, args.epics[i].key,
                              args.epics[i].summary) # Raised

\* The part of C19 the code keeps: runs whose templates all format.
FailureIsIsolatedWhenTemplatesRender ==
    (Batching /\ ~args.dry_run /\ TemplatesRender) =>
        /\ result = None
        /\ \A i \in EpicIndices :
               /\ DuplicateSearches(i) # {}
               /\ \A j \in 1..Len(Selected(i)) : Attempted(i, j)

\* The tracker of the call accepts the story itself (the story without a
\* link field).
TrackerAcceptsStory ==
    Rendered(args.template.summary) \notin args.tracker.rejected

\* The ids of the fields the update calls of the call tried to set.
UpdatedFields ==
    {calls[i].fields[1].id : i \in {j \in 1..Len(calls) : calls[j].fn = "update"}}

\* Every fallback was tried: the fields were listed again after creation (and
\* the re-resolved field, if any, updated), the four fixed ids were updated,
\* and the link types were listed for the generic issue link.
FallbacksExhausted ==
    \E i \in CreateIssueCalls :
        /\ "fields" \in CallsAfter(i)
        /\ {CF_10001, CF_10008, CF_10014, CF_10002} \subseteq UpdatedFields
        /\ "issue_link_types" \in CallsAfter(i)
        /\ ~args.tracker.link_types.raises => "create_issue_link" \in CallsAfter(i)

\* C20: linkage errors are never fatal to a story. Whenever the tracker would
\* accept the story itself, create_story returns a created story even if
\* setting the epic link fails (the tracker rejecting the pre-resolved link
\* field sent at creation included), and "manual action required" is
\* reported only after every fallback was tried.
C20_LinkageFailureNeverFatal ==
    (Creating /\ TemplateRenders /\ TrackerAcceptsStory) =>
        /\ result # None /\ result # Raised
        /\ "manual_action_required" \in {output[k] : k \in 1..Len(output)}
               => FallbacksExhausted

\* The part of C20 the code keeps: when no link field was resolved before
\* creation, the story is created and the fallbacks are exhausted before the
\* manual-action report.
LinkageFailureAfterCreationNeverFatal ==
    (Creating /\ TemplateRenders /\ TrackerAcceptsStory
        /\ ~Truthy(ResolvedBeforeCreation)) =>
        /\ result # None /\ result # Raised
        /\ "manual_action_required" \in {output[k] : k \in 1..Len(output)}
               => FallbacksExhausted

\* A run of one of the programs has ended.
RanStories == op = "main" /\ tool = "stories"

RanView == op = "main" /\ tool = "view"

\* The confirmation prompts of the run.
ProceedPrompts ==
    {j \in 1..Len(calls) : calls[j].fn = "input" /\ calls[j].prompt = "proceed"}

\* The typed answer, trimmed and lower-cased, is y or yes.
AnsweredYes == lower(strip(args.answer)) \in {<<"y">>, <<"y", "e", "s">>}

\* C16: in a non-dry-run of the stories tool no write call comes before the
\* answer to the confirmation prompt; an answer other than y or yes (trimmed,
\* case-insensitive) ends the run with no write call; and when the epic
\* search returns nothing the run ends without a prompt and without writes.
C16_NoWriteBeforeConfirmation ==
    (RanStories /\ ~args.dry_run) =>
        /\ \A w \in Writes : \E p \in ProceedPrompts : p < w
        /\ ~AnsweredYes => Writes = {}
        /\ args.search.issues = <<>> => (ProceedPrompts = {} /\ Writes = {})

\* The user answers " YES" and the stories are then created, after the
\* prompt.
C16_Witness ==
    /\ RanStories /\ ~args.dry_run
    /\ args.answer = <<" ", "Y", "E", "S", "\n">>
    /\ Len(args.search.issues) = 2
    /\ Cardinality(ProceedPrompts) = 1
    /\ Cardinality({w \in Writes : calls[w].fn = "create_issue"}) = 2
    /\ \A w \in Writes : \A p \in ProceedPrompts : p < w
    /\ result = 0

Ran == op = "main"

\* The command lines the stories tool answers without looking at the token.
AnsweredWithoutToken == {"detailed_help", "help", "version"}

\* C17 as stated: in both tools every invocation made while JIRA_API_TOKEN is
\* absent exits with a non-zero status and makes no call to the tracker.
C17_NoTokenExitsNonZero ==
    (Ran /\ ~args.token) => (result # 0 /\ calls = <<>>)

\* C17, amended: while JIRA_API_TOKEN is absent neither tool makes a call to
\* the tracker (the connection included); the view tool exits with status 1
\* on every invocation; the stories tool exits with status 0 on -h, -V and
\* --detailed-help, which it answers before it looks at the token, and with
\* a non-zero status on every other invocation.
C17_NoTokenNoTrackerCall ==
    (Ran /\ ~args.token) =>
        /\ calls = <<>>
        /\ tool = "view" => result = 1
        /\ tool = "stories" =>
               (result = 0) = (args.argv \in AnsweredWithoutToken)

\* The stories tool is run without a token on a tracker where the run would
\* have found an epic, and exits 1 before connecting.
C17_Witness ==
    /\ RanStories
    /\ ~args.token
    /\ args.argv = "run"
    /\ args.connect_ok
    /\ args.search.issues # <<>>
    /\ result = 1
    /\ calls = <<>>
    /\ output = <<"token_not_set">>

\* The searches and writes of a run.
SearchesAndWrites ==
    {j \in 1..Len(calls) : calls[j].fn \in WriteCalls \cup {"search_issues"}}

\* The run tried to connect and the connection or authentication failed.
ConnectionFailed ==
    /\ \E j \in 1..Len(calls) : calls[j].fn = "JIRA"
    /\ ~args.connect_ok

\* C18: in both tools, when connecting or authenticating to the tracker
\* fails, the run is aborted with no search or write call and the process
\* exits with status 1.
C18_ConnectionFailureExitsOne ==
    (Ran /\ ConnectionFailed) => (SearchesAndWrites = {} /\ result = 1)

\* The part of C18 the code keeps: a failed connection is followed by no
\* call at all, in both tools, and the stories tool exits with status 1.
ConnectionFailureAborts ==
    (Ran /\ ConnectionFailed) =>
        /\ Len(calls) = 1
        /\ tool = "stories" => result = 1

\* ------------------------------------------------- runs that follow a run

\* A second run of create_stories_for_epics has returned.
RanAgain == op = "create_stories_for_epics_again"

\* The stories a run created for epic i from the template whose summary
\* starts with text: its create_issue calls that the tracker accepted.
CreatedIn(run_calls, tracker, text, i) ==
    {j \in 1..Len(run_calls) :
        /\ run_calls[j].fn = "create_issue"
        /\ run_calls[j].fields.summary = text \o <<" ">> \o args.epics[i].key
        /\ create_issue_ok(tracker, run_calls[j].fields)}

\* C21: a second run without --dry-run on the same tracker creates no KCS
\* and no Happy-Path story for an epic for which the first run created one,
\* however the first run linked it.
C21_CreatedAtMostOncePerEpicAndTemplate ==
    RanAgain =>
        \A i \in EpicIndices :
        \A text \in {T_KCS_story_for, T_Happy_story_for} :
            CreatedIn(args.before.calls, args.before.tracker, text, i) # {}
                => CreatedIn(calls, args.tracker, text, i) = {}

\* The first run set the field named Epic Link inside create_issue and no
\* duplicate search raises.
LinkedAtCreationAndSearchable ==
    /\ \A i \in EpicIndices : args.before.existing[i].raises = 0
    /\ \A j \in 1..Len(args.before.calls) :
           args.before.calls[j].fn = "create_issue" =>
               /\ args.before.calls[j].fields.epic_link # <<>>
               /\ args.before.calls[j].fields.epic_link[1].id = CF_10008
    /\ args.before.tracker.fields = <<[name |-> N_EpicLink, id |-> CF_10008]>>

\* When the first run linked its stories through the Epic Link field at
\* creation and the duplicate searches answer, the second run creates no KCS
\* and no Happy-Path story the first run created.
CreatedAtMostOnceWhenLinkedAtCreation ==
    (RanAgain /\ LinkedAtCreationAndSearchable) =>
        \A i \in EpicIndices :
        \A text \in {T_KCS_story_for, T_Happy_story_for} :
            CreatedIn(args.before.calls, args.before.tracker, text, i) # {}
                => CreatedIn(calls, args.tracker, text, i) = {}

\* Such a pair of runs: the first creates a KCS story, the second does not.
CreatedOnceWitness ==
    /\ RanAgain /\ LinkedAtCreationAndSearchable
    /\ CreatedIn(args.before.calls, args.before.tracker, T_KCS_story_for, 1) # {}
    /\ CreatedIn(calls, args.tracker, T_KCS_story_for, 1) = {}

\* ------------------------------------------------------- the programs' searches

\* The epic searches of the run: the search_issues calls whose query starts
\* with the base query (the duplicate searches ask for stories).
EpicSearches ==
    {j \in 1..Len(calls) :
        /\ calls[j].fn = "search_issues"
        /\ Len(calls[j].query) >= Len(base_query)
        /\ SubSeq(calls[j].query, 1, Len(base_query)) = base_query}

\* C22 as stated: in every run of either tool, every epic search is issued
\* with the value of --max-results as its result cap.
C22_MaxResultsIsTheSearchCap ==
    Ran => \A j \in EpicSearches : calls[j].maxResults = args.max_results

\* The view tool ran in status-summary mode.
StatusSummaryMode == RanView /\ args.status_summary

\* C22, amended: the stories tool and the regular search of the view tool
\* issue every epic search with the value of --max-results as its result
\* cap; the status-summary mode of the view tool issues its search with the
\* cap 1000, whatever --max-results is.
C22_MaxResultsIsTheCapOfRegularSearches ==
    Ran => \A j \in EpicSearches :
               calls[j].maxResults =
                   IF StatusSummaryMode THEN 1000 ELSE args.max_results

\* A regular search of the view tool with --max-results 20.
C22_Witness ==
    /\ RanView /\ ~args.status_summary
    /\ args.max_results = 20
    /\ \E j \in EpicSearches : calls[j].maxResults = 20

\* ------------------------------------------------------- what the writes touch

\* A call of create_story or a run of create_stories_for_epics has returned.
Wrote == Creating \/ Batching \/ RanAgain

\* The keys of the epics of the call or run.
EpicKeys ==
    IF Creating THEN {args.epic.key}
    ELSE {args.epics[i].key : i \in 1..Len(args.epics)}

\* The create_issue calls the tracker accepted.
AcceptedCreates ==
    {k \in CreateIssueCalls : create_issue_ok(args.tracker, calls[k].fields)}

\* The key of the story the accepted create_issue at position k created.
StoryKeyAt(k) ==
    created_key(args.tracker.created
                  + Cardinality({c \in AcceptedCreates : c <= k}))

\* The create_issue call of the create_story call that call j belongs to: the
\* last one before j.
CreateBefore(j) ==
    {k \in AcceptedCreates :
        k < j /\ \A c \in CreateIssueCalls : c <= k \/ c > j}

\* C23: every update targets the story created earlier in the same
\* create_story call and sets one field to the epic's key; every create_issue
\* creates a Story of project RHSTOR and names an epic only as the value of
\* its link field; every create_issue_link has that story as inward and the
\* epic as outward issue; no update or create call targets an epic.
C23_EpicsAreNeverMutated ==
    Wrote =>
        \A j \in 1..Len(calls) :
            /\ calls[j].fn = "update" =>
                   /\ calls[j].issue \notin EpicKeys
                   /\ \E k \in CreateBefore(j) : calls[j].issue = StoryKeyAt(k)
                   /\ Len(calls[j].fields) = 1
                   /\ calls[j].fields[1].value \in EpicKeys
            /\ calls[j].fn = "create_issue" =>
                   /\ calls[j].fields.project = [key |-> T_RHSTOR]
                   /\ calls[j].fields.issuetype = [name |-> T_Story]
                   /\ \A f \in 1..Len(calls[j].fields.epic_link) :
                          calls[j].fields.epic_link[f].value \in EpicKeys
            /\ calls[j].fn = "create_issue_link" =>
                   /\ \E k \in CreateBefore(j) :
                          calls[j].inwardIssue = StoryKeyAt(k)
                   /\ calls[j].outwardIssue \in EpicKeys
            /\ calls[j].fn \in WriteCalls \cup
                   {"fields", "issue_link_types", "search_issues"}

\* A story that five updates failed to link and a generic issue link linked.
C23_Witness ==
    /\ Creating
    /\ result = Issue(K_story \o <<"1">>)
    /\ Cardinality({j \in 1..Len(calls) : calls[j].fn = "update"}) = 5
    /\ \E j \in 1..Len(calls) :
           /\ calls[j].fn = "create_issue_link"
           /\ calls[j].inwardIssue = K_story \o <<"1">>
           /\ calls[j].outwardIssue = EpicKey(1)

\* ------------------------------------------------- linkage after creation

\* create_story created the story without a link field: the template
\* rendered, no field id was resolved before creation, the tracker accepted.
CreatedUnlinked ==
    /\ Creating /\ TemplateRenders /\ TrackerAcceptsStory
    /\ ~Truthy(ResolvedBeforeCreation)

\* The field fallback (a) updates: the id of the first listed field whose
\* name contains "epic", when the second listing answers and has one.
ReResolved ==
    LET listed == args.tracker.fields
        hits == {i \in 1..Len(listed) : contains(lower(listed[i].name), T_epic)}
    IN  IF 2 \in args.tracker.fields_raises \/ hits = {} THEN <<>>
        ELSE <<listed[CHOOSE i \in hits : \A h \in hits : i <= h].id>>

\* The linkage writes in the order the fallbacks name them: (a), the four
\* ids of (b), and (c) when the link types can be listed.
LinkageOrder ==
    [k \in 1..Len(ReResolved) |-> [fn |-> "update", field |-> ReResolved[k]]]
        \o <<[fn |-> "update", field |-> CF_10001],
             [fn |-> "update", field |-> CF_10008],
             [fn |-> "update", field |-> CF_10014],
             [fn |-> "update", field |-> CF_10002]>>
        \o IF args.tracker.link_types.raises THEN <<>>
           ELSE <<[fn |-> "create_issue_link", field |-> <<>>]>>

\* The tracker of the call accepts this linkage write.
LinkageSucceeds(write) ==
    IF write.fn = "update" THEN write.field \in args.tracker.updatable
    ELSE args.tracker.issue_link_ok

\* The linkage writes the call made, in the order it made them.
LinkageWrites ==
    LET at == {j \in 1..Len(calls) : calls[j].fn \in {"update", "create_issue_link"}}
        RECURSIVE from(_)
        from(j) ==
            IF j > Len(calls) THEN <<>>
            ELSE (IF j \notin at THEN <<>>
                  ELSE IF calls[j].fn = "update"
                  THEN <<[fn |-> "update", field |-> calls[j].fields[1].id]>>
                  ELSE <<[fn |-> "create_issue_link", field |-> <<>>]>>)
                     \o from(j + 1)
    IN  from(1)

\* C24: when the link was not set during creation, the linkage writes are the
\* fallbacks (a), (b) with its four ids, (c) in this order, cut after the
\* first write the tracker accepts: at most one linkage write succeeds, it is
\* the last call of create_story, and every fallback before it was tried.
C24_FallbacksInOrderUntilFirstSuccess ==
    CreatedUnlinked =>
        LET accepted == {k \in 1..Len(LinkageOrder) :
                            LinkageSucceeds(LinkageOrder[k])}
            last == IF accepted = {} THEN Len(LinkageOrder)
                    ELSE CHOOSE k \in accepted : \A a \in accepted : k <= a
        IN  /\ LinkageWrites = SubSeq(LinkageOrder, 1, last)
            /\ Cardinality({k \in 1..Len(LinkageWrites) :
                               LinkageSucceeds(LinkageWrites[k])}) <= 1
            /\ accepted # {} =>
                   /\ calls[Len(calls)].fn \in {"update", "create_issue_link"}
                   /\ LinkageSucceeds(LinkageWrites[Len(LinkageWrites)])
            /\ calls[1].fn = "fields" /\ calls[2].fn = "create_issue"
            /\ calls[3].fn = "fields"
            /\ \A j \in 1..Len(calls) :
                   calls[j].fn = "issue_link_types" =>
                       \A u \in 1..Len(calls) : calls[u].fn = "update" => u < j

\* Fallback (a) updates customfield_10008 and fails, (b) fails with
\* customfield_10001 and customfield_10008 and succeeds with
\* customfield_10014: customfield_10002 and the link types are never tried.
C24_Witness ==
    /\ CreatedUnlinked
    /\ ReResolved = <<CF_10008>>
    /\ LinkageWrites = <<[fn |-> "update", field |-> CF_10008],
                         [fn |-> "update", field |-> CF_10001],
                         [fn |-> "update", field |-> CF_10008],
                         [fn |-> "update", field |-> CF_10014]>>
    /\ "issue_link_types" \notin CallsAfter(2)
    /\ output = <<>>

\* ---------------------------------------------------------- partial success

\* The tracker accepted the create_issue of the call.
StoryCreated == Creating /\ AcceptedCreates # {}

\* The link was set: by the link field inside create_issue, or by a linkage
\* write the tracker accepted.
LinkageSucceeded ==
    \/ \E k \in AcceptedCreates : calls[k].fields.epic_link # <<>>
    \/ \E k \in 1..Len(LinkageWrites) : LinkageSucceeds(LinkageWrites[k])

ManualActionReported ==
    \E k \in 1..Len(output) : output[k] = "manual_action_required"

\* C25: whenever create_issue succeeds, create_story returns the created
\* story, whatever the later fields, update, issue_link_types and
\* create_issue_link calls do, and it reports "manual action required"
\* exactly when no linkage method succeeded.
C25_CreatedStoryIsReturned ==
    StoryCreated =>
        /\ \E k \in AcceptedCreates : result = Issue(StoryKeyAt(k))
        /\ ManualActionReported <=> ~LinkageSucceeded

\* Every later call fails: the second field listing raises, the four updates
\* are refused, the link types cannot be listed; the story is returned with
\* the manual-action report.
C25_Witness ==
    /\ StoryCreated
    /\ 2 \in args.tracker.fields_raises
    /\ args.tracker.updatable = {}
    /\ args.tracker.link_types.raises
    /\ Len(LinkageWrites) = 4
    /\ result = Issue(K_story \o <<"1">>)
    /\ ManualActionReported

\* ------------------------------------------------- the generic issue link

\* The link types the tracker of the call lists.
ListedLinkTypes == args.tracker.link_types.types

\* The name of the i-th listed link type contains "epic", in any case.
NamesEpic(i) == contains(lower(ListedLinkTypes[i]), T_epic)

\* C26: every create_issue_link of create_story uses the first listed link
\* type whose name contains "epic" (case-insensitive), or Relates when none
\* does, with the new story as inward issue and the epic as outward issue.
C26_IssueLinkTypeAndDirection ==
    Creating =>
        \A j \in 1..Len(calls) :
            calls[j].fn = "create_issue_link" =>
                /\ \A i \in 1..Len(ListedLinkTypes) :
                       (NamesEpic(i) /\ \A h \in 1..(i - 1) : ~NamesEpic(h))
                           => calls[j].type = ListedLinkTypes[i]
                /\ (\A i \in 1..Len(ListedLinkTypes) : ~NamesEpic(i))
                       => calls[j].type = T_Relates
                /\ calls[j].inwardIssue = result[2]
                /\ calls[j].outwardIssue = args.epic.key

\* On a tracker that lists Blocks, Epic-Story Link and EPIC the story is
\* linked to the epic with Epic-Story Link.
C26_Witness ==
    /\ Creating
    /\ Len(ListedLinkTypes) = 3
    /\ ~NamesEpic(1) /\ NamesEpic(2) /\ NamesEpic(3)
    /\ \E j \in 1..Len(calls) :
           /\ calls[j].fn = "create_issue_link"
           /\ calls[j].type = ListedLinkTypes[2]
           /\ calls[j].inwardIssue = K_story \o <<"1">>
           /\ calls[j].outwardIssue = EpicKey(1)
    /\ output = <<>>

\* --------------------------------------------------- manual-template mode

\* A run in manual-template mode without --dry-run has returned.
ManualRun == Batching /\ ~args.auto_mode /\ ~args.dry_run

\* The configured templates of the run.
Configured == templates_or_default(args.story_templates)

\* The configured templates that are due for epic i, in configured order: all
\* but a KCS template when a KCS story is reported and a Happy-Path template
\* when a Happy-Path story is reported.
Due(i) ==
    LET due(template) ==
            /\ ~(contains(template.summary, T_KCS_story_for) /\ ReportedKcs(i))
            /\ ~(contains(template.summary, T_Happy_story_for) /\ ReportedHappy(i))
    IN  SelectSeq(Configured, due)

\* The attempts the run reports for epic i: the template numbers of its
\* "created story" and "failed to create" lines, in the order printed.
AttemptsOf(i) ==
    LET RECURSIVE from(_)
        from(k) ==
            IF k > Len(output) THEN <<>>
            ELSE (IF /\ output[k].event \in {"created_story", "failed_to_create"}
                     /\ output[k].epic = args.epics[i].key
                  THEN <<output[k].n>> ELSE <<>>) \o from(k + 1)
    IN  from(1)

\* The summaries of the create_issue calls of the run, in call order.
CreatedSummaries ==
    LET RECURSIVE from(_)
        from(k) ==
            IF k > Len(calls) THEN <<>>
            ELSE (IF calls[k].fn = "create_issue"
                  THEN <<calls[k].fields.summary>> ELSE <<>>) \o from(k + 1)
    IN  from(1)

\* The summaries of the due templates, epic by epic from epic i on.
DueSummaries(i) ==
    LET RECURSIVE from(_)
        from(e) ==
            IF e > Len(args.epics) THEN <<>>
            ELSE [k \in 1..Len(Due(e)) |-> summary_for(Due(e)[k], args.epics[e])]
                     \o from(e + 1)
    IN  from(i)

\* Every due template of every epic is attempted once, in configured order.
EveryDueTemplateAttempted ==
    /\ result = None
    /\ \A i \in EpicIndices : AttemptsOf(i) = [k \in 1..Len(Due(i)) |-> k]
    /\ CreatedSummaries = DueSummaries(1)

\* C27: in manual-template mode without --dry-run, for every epic each
\* configured template is attempted exactly once in configured order, except
\* a KCS template when a KCS story is reported for the epic and a Happy-Path
\* template when a Happy-Path story is reported.
C27_ManualModeAttemptsEveryDueTemplate ==
    ManualRun => EveryDueTemplateAttempted

\* The part of C27 the code keeps: runs whose templates all format.
ManualModeAttemptsEveryDueTemplateThatRenders ==
    (ManualRun /\ TemplatesRender) => EveryDueTemplateAttempted

\* Two epics and the default templates: the first epic has a KCS story and
\* gets the Happy-Path story only, the second gets both.
ManualModeWitness ==
    /\ ManualRun
    /\ Configured = DEFAULT_STORY_TEMPLATES
    /\ Len(args.epics) = 2
    /\ ReportedKcs(1) /\ ~ReportedHappy(1)
    /\ ~ReportedKcs(2) /\ ~ReportedHappy(2)
    /\ AttemptsOf(1) = <<1>> /\ AttemptsOf(2) = <<1, 2>>
    /\ Len(CreatedSummaries) = 3

\* ------------------------------------------------ what a dry run reports

\* A dry run whose templates all format has returned.
DryRun == Batching /\ args.dry_run /\ Len(args.epics) > 0 /\ TemplatesRender

\* The sum of the numbers of the lines named name in what the run printed.
Reported(name) ==
    LET RECURSIVE from(_)
        from(k) ==
            IF k > Len(output) THEN 0
            ELSE (IF output[k].event = name THEN output[k].n ELSE 0) + from(k + 1)
    IN  from(1)

\* The number of create_issue calls of the same run without --dry-run.
WouldAttempt ==
    LET run == create_stories_for_epics(args.epics, args.story_templates, FALSE,
                                        args.auto_mode, args.existing,
                                        args.tracker)
    IN  Cardinality({k \in 1..Len(run.calls) : run.calls[k].fn = "create_issue"})

\* C28: the total of the dry-run summary equals the sum of the per-epic
\* "would create" counts and the number of create_issue calls the same run
\* attempts without --dry-run, for default, single and custom templates.
C28_DryRunReportsWhatWouldBeCreated ==
    DryRun =>
        /\ Reported("dry_run_total") = Reported("dry_run_would_create")
        /\ Reported("dry_run_total") = WouldAttempt

\* No configured template is a custom one: each is a KCS or a Happy-Path
\* template (auto mode uses these two).
OnlyStandardTemplates ==
    args.auto_mode \/
        \A j \in 1..Len(Configured) :
            \/ contains(Configured[j].summary, T_KCS_story_for)
            \/ contains(Configured[j].summary, T_Happy_story_for)

\* The part of C28 the code keeps: without custom templates the three numbers
\* agree, and with custom templates the per-epic counts still agree with the
\* run without --dry-run.
DryRunReportsStandardTemplates ==
    DryRun =>
        /\ Reported("dry_run_would_create") = WouldAttempt
        /\ OnlyStandardTemplates =>
               Reported("dry_run_total") = Reported("dry_run_would_create")

\* A dry run over two epics with the default templates that reports three
\* new stories.
DryRunReportWitness ==
    /\ DryRun /\ ~args.auto_mode
    /\ Configured = DEFAULT_STORY_TEMPLATES
    /\ Reported("dry_run_total") = 3
    /\ WouldAttempt = 3

\* ------------------------------------------------ validation and the network

\* A run that got past the command line and the token, with a fix-version
\* that fails validation or a status outside the allowed set.
RanWithInvalidFilter ==
    /\ Ran /\ args.token /\ args.argv = "run"
    /\ \/ Supplied(args.fix_version) /\ ~FixVersionPasses(args.fix_version)
       \/ Supplied(args.status) /\ args.status \notin AllowedStatusSet

\* The calls of the run that reach the tracker: all but the prompts.
TrackerCalls == {j \in 1..Len(calls) : calls[j].fn # "input"}

InvalidFilterReported ==
    \E k \in 1..Len(output) :
        output[k] \in {"invalid_fix_version", "invalid_status"}

\* C29: in both tools and every mode, a malformed fix-version or a disallowed
\* status is reported before any call to the tracker is made, the connection
\* included.
C29_ValidationBeforeAnyNetworkCall ==
    RanWithInvalidFilter => (TrackerCalls = {} /\ InvalidFilterReported)

\* The status-summary mode of the view tool got a disallowed status and a
\* fix-version that is absent or valid: the mode never validates the status.
SummaryWithUncheckedStatus ==
    /\ StatusSummaryMode
    /\ ~(Supplied(args.fix_version) /\ ~FixVersionPasses(args.fix_version))

\* The part of C29 the code keeps: once connected, an invalid filter is
\* reported without any search, except for the status in status-summary mode.
ValidationBeforeAnySearch ==
    (RanWithInvalidFilter /\ args.connect_ok /\ ~SummaryWithUncheckedStatus) =>
        /\ InvalidFilterReported
        /\ \A j \in TrackerCalls : calls[j].fn \in {"JIRA", "project", "issue_types"}

\* The view tool reports a disallowed status after it connected, without a
\* search.
ValidationWitness ==
    /\ RanView /\ RanWithInvalidFilter /\ ~args.status_summary
    /\ args.status = S_InvalidStatus
    /\ output[1] = "invalid_status"
    /\ Len(calls) = 1 /\ calls[1].fn = "JIRA"

\* ------------------------------------------- exceptions out of create_story

\* C30: create_story never propagates an exception: for every template and
\* every failure of a tracker call it returns the created story or None.
C30_CreateStoryNeverRaises ==
    Creating => result # Raised

\* The consequence C30 draws, as stated: the batch without --dry-run runs to
\* completion for every template list. It fails with the same template.
BatchRunsToCompletion ==
    (Batching /\ ~args.dry_run) => result # Raised

\* The part of C30 the code keeps: with a template whose texts format,
\* create_story returns the created story or None whatever the tracker does.
CreateStoryNeverRaisesWhenTemplateRenders ==
    (Creating /\ TemplateRenders) =>
        \/ result = None
        \/ \E k \in AcceptedCreates : result = Issue(StoryKeyAt(k))

\* A template that formats, on a tracker that rejects the story: None.
CreateStoryReturnsNoneWitness ==
    /\ Creating /\ TemplateRenders
    /\ ~TrackerAcceptsStory
    /\ result = None

====
